---- MODULE Spec2Model ----
(***************************************************************************)
(* Model of the maverick-mcp orchestration core:                          *)
(*   - utils/screening_scheduler.py : ScreeningScheduler (daily trigger)   *)
(*   - api/routers/trader_api.py    : batch_analysis semaphore admission,  *)
(*                                    the per-ticker tasks of one call,    *)
(*                                    content hash, snapshots and deltas   *)
(*   - api/routers/screening.py     : _merge_candidate (watchlist merge)   *)
(* Five specifications share the module: SpecSched, SpecBatch, SpecMerge,  *)
(* SpecDelta and SpecAnalyse.  Each one moves only its own variables       *)
(* (SpecAnalyse also the shared semaphore).                                *)
(***************************************************************************)
EXTENDS Integers, Sequences, FiniteSets, TLC

\* ------------------------------------------------------------------------
\* Bounds of the model (not program constants)
\* ------------------------------------------------------------------------
\* number of 60-second ticks that make up one exchange-local calendar day
TicksPerDay == 6
\* number of calendar days the clock runs through
MaxDay == 2
\* number of loop tasks that start() may create in one behaviour
MaxTasks == 2
\* number of batch_analysis calls that can be in flight together
MaxCalls == 2
\* number of tickers in one batch_analysis call (the request allows 50)
MaxTickers == 12

\* number of provider calls that never return
MaxHung == 9
\* milliseconds on either side of a staleness threshold
AgeWindow == 12
\* hours on either side of a daylight-saving switch
SwitchWindow == 12
\* number of screening rows merged in one get_ranked_watchlist pass
MaxRows == 4
\* largest max_symbols asked of get_ranked_watchlist
MaxSymbols == 2
\* number of snapshots taken in one behaviour (the buffer holds 24)
MaxSnapshots == 26
\* the ranking served to the hash and delta endpoints changes only while
\* fewer than this many snapshots have been taken
ChangeWindow == 2
\* number of tickers of the batch_analysis call followed task by task
MaxBatchLen == 2

\* ------------------------------------------------------------------------
\* Program constants, in ticks of 60 seconds
\* ------------------------------------------------------------------------
\* screening_time, the configured daily trigger time, as a tick of the day
screening_time == 2
\* await asyncio.sleep(60)
SLEEP_TICKS == 1
\* await asyncio.sleep(300)
BACKOFF_TICKS == 5
\* asyncio.Semaphore(10)
BATCH_CAPACITY == 10
\* _MAX_SNAPSHOTS = 24
_MAX_SNAPSHOTS == 24
\* the thresholds of _staleness_label, in seconds
FRESH_SECONDS == 1800
STALE_SECONDS == 7200
\* ET_OFFSET_STANDARD and ET_OFFSET_DAYLIGHT, in hours
ET_OFFSET_STANDARD == -5
ET_OFFSET_DAYLIGHT == -4
\* the days from March 1 to November 1
MARCH_TO_NOVEMBER_DAYS == 245

\* the weekdays (0 = Monday) day 0 is drawn from: a Friday, so that the
\* weekend follows, and a Sunday, so that a Monday follows
StartWeekdays == {4, 6}

\* pipeline starts recorded in the history variable: one per loop task, so
\* that two loops can fire on one date
MaxFires == MaxTasks
\* process restarts: after the last one a loop can still be started
MaxEpoch == MaxTasks - 1

None == -1
NoTask == 0

VARIABLES
    \* ---- scheduler (screening_scheduler.py) ----
    clock,          \* ticks elapsed since the first modelled midnight (ET)
    weekday0,       \* weekday (0 = Monday) of day 0
    _running,       \* ScreeningScheduler._running
    _task,          \* ScreeningScheduler._task : NoTask or a task id
    _last_run_date, \* ScreeningScheduler._last_run_date : None or a date
    tasks,          \* the asyncio tasks running _scheduler_loop
    ntasks,         \* number of loop tasks created so far
    stopPc,         \* position of the stop() call in flight: idle / awaiting
    stopTask,       \* the task stop() is awaiting
    epoch,          \* number of process restarts so far
    \* ---- history variables of the scheduler ----
    log,            \* one record per pipeline start made by the loop
    \* ---- batch analysis (trader_api.py) ----
    _batch_semaphore,   \* None, or the value of the process-wide semaphore
    batch,              \* per call: whether it is in flight, and how many
                        \* of its per-ticker tasks are pending (created or
                        \* waiting for a slot) / holding a slot; the others
                        \* have finished
    \* ---- merge pass (screening.py) ----
    candidates,     \* dict ticker -> candidate, NoCand when absent
    order,          \* insertion order of the dict's keys
    source,         \* index of the source being processed, 0 when idle
    include_bearish,\* argument of get_ranked_watchlist
    max_symbols,    \* argument of get_ranked_watchlist
    nrows,          \* rows iterated so far in this pass
    counts,         \* maverick_count + sd_count + bear_count so far
    dates,          \* <<maverick_date, sd_date, bear_date>> so far
    failed,         \* the source that raised in this pass, 0 if none did
    merge_result,   \* result, the dict returned by the last completed pass
    watchlist,      \* the ranked result, <<>> until the pass has ended
    firstSeen,      \* history: per ticker, the tags of the algorithms that
                    \* produced a row for it, in order of first appearance
    rowMax,         \* history: per ticker, the largest round(composite, 1)
                    \* over the rows merged for it, None when there is none
    firstMerged,    \* history: the tickers of the pass in the order of
                    \* their first merged row
    \* ---- snapshot and delta tracker (trader_api.py) ----
    _screening_snapshots,   \* the module-level snapshot list, oldest first
    ranked,         \* what get_ranked_watchlist(max_symbols=20,
                    \* include_bearish=False) returns at present
    now,            \* datetime.now(UTC), as the number of snapshots taken
    request,        \* the since_hash of the latest get_delta call,
                    \* NoneString when the latest call was not one
    response,       \* the value returned by the latest endpoint call
    checked,        \* the change-hash check that is being followed (history)
    \* ---- one batch_analysis call, task by task (trader_api.py) ----
    body,           \* the BatchAnalysisRequest of the call, NoBody at first
    analyses,       \* per position of body.tickers, the _analyse_one task:
                    \* its pc and the state of its three provider calls
    batch_pc,       \* "idle", or "gathering" while the call awaits its tasks
    batch_response, \* the value the call returned
    \* ---- run_screening called outside the loop ----
    ondemand,       \* the run in progress or the last one that returned: its
                    \* caller, its symbols argument, its position, its
                    \* results dict and what was raised on its way
    \* ---- _staleness_label (trader_api.py) ----
    staleness_ts,   \* the argument ts: the form of the string and the instant
                    \* it names, in milliseconds
    staleness_label,\* the label returned, "none" before the call
    \* ---- _get_et_now (screening_scheduler.py) ----
    march_1,        \* the weekday (0 = Monday) of March 1 of the current year
    utc_now,        \* now, in hours since March 1 00:00 UTC of that year
    et_offset       \* the UTC offset in hours of the zone _get_et_now
                    \* returned, 0 before the call

schedVars == <<clock, weekday0, _running, _task, _last_run_date, tasks, ntasks,
               stopPc, stopTask, epoch, log>>

batchVars == <<_batch_semaphore, batch>>

mergeVars == <<candidates, order, source, include_bearish, max_symbols, nrows,
               watchlist, firstSeen, rowMax, counts, dates, failed, merge_result,
               firstMerged>>

deltaVars == <<_screening_snapshots, ranked, now, request, response, checked>>

analyseVars == <<body, analyses, batch_pc, batch_response>>

runVars == <<ondemand>>

pureVars == <<staleness_ts, staleness_label, march_1, utc_now, et_offset>>

vars == <<schedVars, batchVars, mergeVars, deltaVars, analyseVars, runVars, pureVars>>

TaskIds == 1..MaxTasks

\* pcs at which a loop task is suspended at an await
SuspendedPcs == {"created", "sleep60", "sleep300", "maverick", "bear", "supply_demand"}
\* pcs inside run_screening (the cycle is in flight)
InFlightPcs == {"maverick", "bear", "supply_demand"}

\* a task record: pc, the pending cancellation request (Task.cancel() was
\* called and CancelledError is thrown at the task's next step), the ticks
\* left on the sleep it waits on, the loop's local current_date, whether
\* _refresh_daily_bars returned or raised, the results dict of run_screening, and whether a cycle of the task was abandoned
\* inside run_screening (history)
IdleTask == [pc |-> "none", cancel |-> FALSE, sleep_left |-> 0, current_date |-> None,
             refresh_ok |-> TRUE, maverick |-> 0, bear |-> 0,
             supply_demand |-> 0, status |-> "none", aborted |-> FALSE]

\* ------------------------------------------------------------------------
\* _get_et_now : the exchange-local now as date, time of day and weekday
\* ------------------------------------------------------------------------
_get_et_now(c) ==
    [date    |-> c \div TicksPerDay,
     time    |-> c % TicksPerDay,
     weekday |-> (weekday0 + (c \div TicksPerDay)) % 7]

\* the trigger predicate without the not_run_today conjunct
ShouldTrigger_NoDateCheck(et_now, last) ==
    et_now.weekday < 5 /\ et_now.time >= screening_time

\* the trigger predicate with Saturday taken for a weekday
ShouldTrigger_Saturday(et_now, last) ==
    /\ et_now.weekday < 6
    /\ et_now.time >= screening_time
    /\ (last = None \/ last # et_now.date)

\* lines 83-90: is_weekday and past_screening_time and not_run_today
ShouldTrigger(et_now, last) ==
    LET is_weekday == et_now.weekday < 5
        past_screening_time == et_now.time >= screening_time
        not_run_today == (last = None) \/ (last # et_now.date)
    IN  is_weekday /\ past_screening_time /\ not_run_today

\* et_now + timedelta(days=1)
PlusOneDay(d) ==
    [date |-> d.date + 1, time |-> d.time, weekday |-> (d.weekday + 1) % 7]

\* lines 327-328: while next_day.weekday() >= 5: next_day += timedelta(days=1)
RECURSIVE SkipWeekend(_)
SkipWeekend(d) == IF d.weekday >= 5 THEN SkipWeekend(PlusOneDay(d)) ELSE d

\* lines 315-336: the date, time of day and weekday next_run names
_next_run_time(et_now) ==
    IF et_now.time < screening_time /\ et_now.weekday < 5
    THEN [et_now EXCEPT !.time = screening_time]
    ELSE [SkipWeekend(PlusOneDay(et_now)) EXCEPT !.time = screening_time]

\* lines 303-313: the status property read at clock c (the two formatted
\* copies of the configured time and of now are left out)
scheduler_status(c) ==
    [running |-> _running,
     last_run |-> _last_run_date,
     next_run |-> _next_run_time(_get_et_now(c))]

\* stop() that leaves the running flag as it was
RunningAfterStop_Keep(r) == r

\* line 65: stop() clears the running flag
RunningAfterStop(r) == FALSE

\* the sleeps of lines 104 and 110, in ticks
NormalSleep == SLEEP_TICKS
\* the error handler sleeping the normal 60 s
BackoffSleep_Short == SLEEP_TICKS
BackoffSleep == BACKOFF_TICKS

\* ------------------------------------------------------------------------
\* Init : the state after ScreeningScheduler.__init__
\* ------------------------------------------------------------------------
SchedInit ==
    /\ clock = 0
    /\ weekday0 \in StartWeekdays
    /\ _running = FALSE
    /\ _task = NoTask
    /\ _last_run_date = None
    /\ tasks = [t \in TaskIds |-> IdleTask]
    /\ ntasks = 0
    /\ stopPc = "idle"
    /\ stopTask = NoTask
    /\ epoch = 0
    /\ log = <<>>

\* the wall clock advances by one tick of 60 seconds; running sleeps get
\* one tick closer to their end
Tick ==
    /\ clock + 1 < MaxDay * TicksPerDay
    /\ clock' = clock + 1
    /\ tasks' = [t \in TaskIds |->
                   [tasks[t] EXCEPT !.sleep_left = IF @ > 0 THEN @ - 1 ELSE 0]]
    /\ UNCHANGED <<weekday0, _running, _task, _last_run_date, ntasks,
                   stopPc, stopTask, epoch, log>>
    /\ UNCHANGED <<batchVars, mergeVars, deltaVars, analyseVars, runVars, pureVars>>

\* ScreeningScheduler.start
Start ==
    /\ IF _running
       THEN UNCHANGED <<_running, _task, tasks, ntasks>>
       ELSE /\ ntasks < MaxTasks
            /\ _running' = TRUE
            /\ ntasks' = ntasks + 1
            /\ _task' = ntasks + 1
            /\ tasks' = [tasks EXCEPT ![ntasks + 1] = [IdleTask EXCEPT !.pc = "created"]]
    /\ UNCHANGED <<clock, weekday0, _last_run_date, stopPc, stopTask, epoch, log>>
    /\ UNCHANGED <<batchVars, mergeVars, deltaVars, analyseVars, runVars, pureVars>>

\* ScreeningScheduler.stop, up to "await self._task" (or to its return when
\* there is no task or the task is already done and the await does not suspend)
StopCall ==
    /\ stopPc = "idle"
    /\ _running' = RunningAfterStop(_running)
    /\ IF _task # NoTask /\ tasks[_task].pc \in SuspendedPcs
       THEN /\ tasks' = [tasks EXCEPT ![_task].cancel = TRUE]
            /\ stopPc' = "awaiting"
            /\ stopTask' = _task
       ELSE UNCHANGED <<tasks, stopPc, stopTask>>
    /\ UNCHANGED <<clock, weekday0, _task, _last_run_date, ntasks, epoch, log>>
    /\ UNCHANGED <<batchVars, mergeVars, deltaVars, analyseVars, runVars, pureVars>>

\* ScreeningScheduler.stop resumes once the awaited task is done, and returns
StopReturn ==
    /\ stopPc = "awaiting"
    /\ tasks[stopTask].pc = "done"
    /\ stopPc' = "idle"
    /\ stopTask' = NoTask
    /\ UNCHANGED <<clock, weekday0, _running, _task, _last_run_date, tasks,
                   ntasks, epoch, log>>
    /\ UNCHANGED <<batchVars, mergeVars, deltaVars, analyseVars, runVars, pureVars>>

\* ------------------------------------------------------------------------
\* _scheduler_loop, one action per run between two suspension points
\* ------------------------------------------------------------------------
\* last_run_date advanced only when the run reported status completed
LastRunAfterCycle_OnlyCompleted(current_date, status, old) ==
    IF status = "completed" THEN current_date ELSE old

\* line 101: self._last_run_date = current_date, whatever results came back
LastRunAfterCycle(current_date, status, old) == current_date

\* a last_run_date that survives the restart
LastRunAfterRestart_Durable(old) == old

\* __init__ line 49: a fresh scheduler object has no last_run_date
LastRunAfterRestart(old) == None

\* the history record of one pipeline start
FireRecord(t, et_now) ==
    [task |-> t, date |-> et_now.date, epoch |-> epoch]

\* a task waiting on a timer can resume once the timer is due; a task that
\* was just created resumes at once
CanResume(t) ==
    \/ tasks[t].pc = "created"
    \/ tasks[t].pc \in {"sleep60", "sleep300"} /\ tasks[t].sleep_left = 0

\* a refresh whose exception escapes the iteration
RefreshFaults_Escapes(refresh_ok) == ~refresh_ok

\* lines 95-98: the exception of _refresh_daily_bars is logged and swallowed,
\* it never reaches the handler of line 108
RefreshFaults(refresh_ok) == FALSE

\* lines 76-110: the loop resumes from its wait and runs one iteration up to
\* its next await: the 60 s sleep, the 300 s backoff sleep, or the first
\* screener call inside run_screening
LoopWake(t) ==
    /\ CanResume(t)
    /\ ~tasks[t].cancel
    /\ IF ~_running
       THEN \* while self._running: the loop ends
            /\ tasks' = [tasks EXCEPT ![t] = [IdleTask EXCEPT !.pc = "done"]]
            /\ UNCHANGED <<_last_run_date, log>>
       ELSE \E fault \in BOOLEAN :
            IF fault
            THEN \* an exception escapes the iteration (line 108)
                 /\ tasks' = [tasks EXCEPT ![t] =
                                [IdleTask EXCEPT !.pc = "sleep300",
                                                 !.sleep_left = BackoffSleep]]
                 /\ UNCHANGED <<_last_run_date, log>>
            ELSE LET et_now == _get_et_now(clock) IN
                 IF ShouldTrigger(et_now, _last_run_date)
                 THEN \* lines 91-100: refresh (never suspends, failures
                      \* swallowed), then run_screening up to its first await
                      /\ Len(log) < MaxFires
                      /\ \E refresh_ok \in BOOLEAN, setup_ok \in BOOLEAN :
                           /\ log' = Append(log, FireRecord(t, et_now))
                           /\ IF RefreshFaults(refresh_ok)
                              THEN /\ tasks' = [tasks EXCEPT ![t] =
                                        [IdleTask EXCEPT !.pc = "sleep300",
                                                  !.sleep_left = BackoffSleep,
                                                  !.refresh_ok = refresh_ok]]
                                   /\ UNCHANGED _last_run_date
                              ELSE IF setup_ok
                              THEN /\ tasks' = [tasks EXCEPT ![t] =
                                        [@ EXCEPT !.pc = "maverick", !.sleep_left = 0,
                                                  !.refresh_ok = refresh_ok,
                                                  !.current_date = et_now.date,
                                                  !.maverick = 0, !.bear = 0,
                                                  !.supply_demand = 0,
                                                  !.status = "running"]]
                                   /\ UNCHANGED _last_run_date
                              ELSE \* lines 296-301: status "failed", returned
                                   \* without suspending; then lines 101-104
                                   /\ tasks' = [tasks EXCEPT ![t] =
                                        [IdleTask EXCEPT !.pc = "sleep60",
                                                  !.sleep_left = NormalSleep,
                                                  !.status = "failed"]]
                                   /\ _last_run_date' =
                                        LastRunAfterCycle(et_now.date, "failed", _last_run_date)
                 ELSE \* line 104
                      /\ tasks' = [tasks EXCEPT ![t] =
                                     [IdleTask EXCEPT !.pc = "sleep60",
                                                      !.sleep_left = NormalSleep]]
                      /\ UNCHANGED <<_last_run_date, log>>
    /\ UNCHANGED <<clock, weekday0, _running, _task, ntasks, stopPc, stopTask,
                   epoch>>
    /\ UNCHANGED <<batchVars, mergeVars, deltaVars, analyseVars, runVars, pureVars>>

\* lines 246-257: the bullish screener call returns (count stored) or raises
\* (logged, count stays 0); the run goes on to the bear screener
MaverickDone(t) ==
    /\ tasks[t].pc = "maverick"
    /\ ~tasks[t].cancel
    /\ \E count \in 0..1 :
         tasks' = [tasks EXCEPT ![t].maverick = count, ![t].pc = "bear"]
    /\ UNCHANGED <<clock, weekday0, _running, _task, _last_run_date, ntasks,
                   stopPc, stopTask, epoch, log>>
    /\ UNCHANGED <<batchVars, mergeVars, deltaVars, analyseVars, runVars, pureVars>>

\* lines 260-271
BearDone(t) ==
    /\ tasks[t].pc = "bear"
    /\ ~tasks[t].cancel
    /\ \E count \in 0..1 :
         tasks' = [tasks EXCEPT ![t].bear = count, ![t].pc = "supply_demand"]
    /\ UNCHANGED <<clock, weekday0, _running, _task, _last_run_date, ntasks,
                   stopPc, stopTask, epoch, log>>
    /\ UNCHANGED <<batchVars, mergeVars, deltaVars, analyseVars, runVars, pureVars>>

\* lines 274-301, then 100-104: the last screener call returns or raises, the
\* session closes (status completed, or failed if closing raises),
\* run_screening returns its results, which line 100 drops; the loop stores
\* last_run_date and sleeps 60 s.  The status is kept as history.
SupplyDemandDone(t) ==
    /\ tasks[t].pc = "supply_demand"
    /\ ~tasks[t].cancel
    /\ \E count \in 0..1, status \in {"completed", "failed"} :
         /\ tasks' = [tasks EXCEPT ![t] =
                        [IdleTask EXCEPT !.pc = "sleep60",
                                         !.sleep_left = NormalSleep,
                                         !.status = status]]
         /\ _last_run_date' =
              LastRunAfterCycle(tasks[t].current_date, status, _last_run_date)
    /\ UNCHANGED <<clock, weekday0, _running, _task, ntasks, stopPc, stopTask,
                   epoch, log>>
    /\ UNCHANGED <<batchVars, mergeVars, deltaVars, analyseVars, runVars, pureVars>>

\* Task.cancel() takes effect at the task's next step: CancelledError is
\* thrown at the await the task is suspended on.  It is not an Exception, so
\* the handlers at lines 256, 270, 284 and 296 let it through; line 106
\* catches it and breaks (from the backoff sleep it leaves the coroutine).
\* A cycle that was inside run_screening is abandoned before line 101.
LoopCancelled(t) ==
    /\ tasks[t].pc \in SuspendedPcs
    /\ tasks[t].cancel
    /\ tasks' = [tasks EXCEPT ![t] =
                   [IdleTask EXCEPT !.pc = "done",
                                    !.aborted = (tasks[t].pc \in InFlightPcs)]]
    /\ UNCHANGED <<clock, weekday0, _running, _task, _last_run_date, ntasks,
                   stopPc, stopTask, epoch, log>>
    /\ UNCHANGED <<batchVars, mergeVars, deltaVars, analyseVars, runVars, pureVars>>

\* the process is restarted: its tasks are gone and get_screening_scheduler
\* builds a new ScreeningScheduler (__init__)
Restart ==
    /\ epoch < MaxEpoch
    /\ epoch' = epoch + 1
    /\ _running' = FALSE
    /\ _task' = NoTask
    /\ _last_run_date' = LastRunAfterRestart(_last_run_date)
    /\ tasks' = [t \in TaskIds |->
                   IF tasks[t].pc = "none" THEN tasks[t]
                   ELSE [IdleTask EXCEPT !.pc = "killed", !.aborted = tasks[t].aborted]]
    /\ stopPc' = "idle"
    /\ stopTask' = NoTask
    /\ UNCHANGED <<clock, weekday0, ntasks, log>>
    /\ UNCHANGED <<batchVars, mergeVars, deltaVars, analyseVars, runVars, pureVars>>

\* ------------------------------------------------------------------------
\* run_screening called outside the loop (trigger_screening, register_ticker)
\* ------------------------------------------------------------------------
\* the symbols argument: <<>> stands for None (and for the empty list, which
\* `if symbols` treats alike), the other value for a subset
SymbolArgs == {<<>>, <<"AAA">>}

\* what a screener call does: it raises, it returns no rows, it returns rows
\* that bulk_insert_screening_data stores
ScreenerOutcomes == {"raised", "empty", "rows"}

\* lines 189-196: the results dict; and as history the caller, the steps
\* reached (the screener calls, then the closing of the session), the
\* screeners that raised, those that returned rows, and whether the session
\* closed without raising
NoRun == [pc |-> "idle", via |-> "none", symbols |-> <<>>, bars_ok |-> TRUE,
          ran |-> <<>>, raised |-> {}, rows |-> {}, closed |-> TRUE,
          maverick |-> 0, bear |-> 0, supply_demand |-> 0, status |-> "none"]

RunInit == ondemand = NoRun

\* the count stored in the results dict by a screener block (lines 249-254)
CountOf(outcome) == IF outcome = "rows" THEN 1 ELSE 0

\* a screener block without its handler: the exception of the screener
\* reaches line 296
AfterScreener_Unguarded(run, key, outcome, next) ==
    IF outcome = "raised"
    THEN [run EXCEPT !.pc = "returned", !.status = "failed", !.raised = @ \cup {key}]
    ELSE [run EXCEPT ![key] = CountOf(outcome), !.pc = next,
                     !.rows = IF outcome = "rows" THEN @ \cup {key} ELSE @,
                     !.ran = Append(@, next)]

\* lines 246-257, 260-271, 274-285: a screener block has ended, by its
\* return or through its handler, and the next screener is called
AfterScreener(run, key, outcome, next) ==
    [run EXCEPT ![key] = CountOf(outcome),
                !.raised = IF outcome = "raised" THEN @ \cup {key} ELSE @,
                !.rows = IF outcome = "rows" THEN @ \cup {key} ELSE @,
                !.pc = next,
                !.ran = Append(@, next)]

\* self._last_run_date stamped by the run itself
LastRunAfterOnDemand_Stamped(old, today) == today

\* lines 180-301: run_screening does not assign self._last_run_date
LastRunAfterOnDemand(old, today) == old

\* lines 180-245: run_screening is called; the bars of a symbol subset are
\* fetched first (no suspension, a failure is logged and swallowed), then
\* the database and the screener are set up; an exception there goes to
\* line 296 and the run returns status failed, otherwise the run is
\* suspended in the first screener call
RunStart(via, symbols) ==
    /\ ondemand.pc \in {"idle", "returned"}
    /\ \E bars_ok \in BOOLEAN, setup_ok \in BOOLEAN :
         ondemand' =
            IF setup_ok
            THEN [NoRun EXCEPT !.pc = "maverick", !.via = via, !.symbols = symbols,
                               !.bars_ok = (symbols = <<>>) \/ bars_ok,
                               !.ran = <<"maverick">>, !.status = "running"]
            ELSE [NoRun EXCEPT !.pc = "returned", !.via = via, !.symbols = symbols,
                               !.bars_ok = (symbols = <<>>) \/ bars_ok,
                               !.status = "failed"]

\* trigger_screening: trader_api.py lines 333-341 hand the symbols to
\* screening_refresh_now, which runs run_screening of the scheduler
TriggerScreening(symbols) ==
    /\ RunStart("trigger", symbols)
    /\ UNCHANGED <<schedVars, batchVars, mergeVars, deltaVars, analyseVars, pureVars>>

\* management.py lines 152-171: register_ticker runs run_screening of a
\* ScreeningScheduler object of its own for the one ticker
RegisterTicker ==
    /\ RunStart("register", <<"AAA">>)
    /\ UNCHANGED <<schedVars, batchVars, mergeVars, deltaVars, analyseVars, pureVars>>

\* lines 246-257
RunMaverickDone(outcome) ==
    /\ ondemand.pc = "maverick"
    /\ ondemand' = AfterScreener(ondemand, "maverick", outcome, "bear")
    /\ UNCHANGED <<schedVars, batchVars, mergeVars, deltaVars, analyseVars, pureVars>>

\* lines 260-271
RunBearDone(outcome) ==
    /\ ondemand.pc = "bear"
    /\ ondemand' = AfterScreener(ondemand, "bear", outcome, "supply_demand")
    /\ UNCHANGED <<schedVars, batchVars, mergeVars, deltaVars, analyseVars, pureVars>>

\* lines 274-301: the last screener block ends and the session is closed;
\* status completed, or failed when closing the session raises (line 296).
\* The run returns; the scheduler object of trigger_screening is the one of
\* the loop
RunSupplyDemandDone(outcome, closed) ==
    /\ ondemand.pc = "supply_demand"
    /\ LET run == AfterScreener(ondemand, "supply_demand", outcome, "closing") IN
         ondemand' =
            IF run.pc = "closing"
            THEN [run EXCEPT !.pc = "returned", !.closed = closed,
                             !.status = IF closed THEN "completed" ELSE "failed"]
            ELSE run
    /\ _last_run_date' =
          IF ondemand.via = "trigger"
          THEN LastRunAfterOnDemand(_last_run_date, _get_et_now(clock).date)
          ELSE _last_run_date
    /\ UNCHANGED <<clock, weekday0, _running, _task, tasks, ntasks, stopPc, stopTask,
                   epoch, log>>
    /\ UNCHANGED <<batchVars, mergeVars, deltaVars, analyseVars, pureVars>>

\* runs of run_screening outside the loop, with every outcome of the
\* screeners
RunNext ==
    \/ \E symbols \in SymbolArgs : TriggerScreening(symbols)
    \/ RegisterTicker
    \/ \E outcome \in ScreenerOutcomes : RunMaverickDone(outcome)
    \/ \E outcome \in ScreenerOutcomes : RunBearDone(outcome)
    \/ \E outcome \in ScreenerOutcomes, closed \in BOOLEAN :
          RunSupplyDemandDone(outcome, closed)

\* the loop of a started scheduler does its daily work while run_screening
\* is called from outside the loop
OnDemandNext ==
    \/ Tick
    \/ Start
    \/ \E t \in TaskIds : LoopWake(t)
    \/ \E t \in TaskIds : MaverickDone(t)
    \/ \E t \in TaskIds : BearDone(t)
    \/ \E t \in TaskIds : SupplyDemandDone(t)
    \/ \E symbols \in SymbolArgs : TriggerScreening(symbols)
    \/ RegisterTicker
    \/ \E outcome \in ScreenerOutcomes : RunMaverickDone(outcome)
    \/ \E outcome \in ScreenerOutcomes : RunBearDone(outcome)
    \/ \E outcome \in ScreenerOutcomes, closed \in BOOLEAN :
          RunSupplyDemandDone(outcome, closed)

\* ------------------------------------------------------------------------
\* batch_analysis : admission of the per-ticker tasks by the semaphore
\* ------------------------------------------------------------------------
CallIds == 1..MaxCalls

NoCall == [active |-> FALSE, pending |-> 0, holding |-> 0, hung |-> 0]

BatchInit ==
    /\ _batch_semaphore = None
    /\ batch = [c \in CallIds |-> NoCall]

\* a semaphore built anew on every call
_get_batch_semaphore_Fresh(sem) == BATCH_CAPACITY

\* lines 29-33: the value of the shared semaphore, created on first use
_get_batch_semaphore(sem) == IF sem = None THEN BATCH_CAPACITY ELSE sem

\* lines 435-438: a call schedules one _analyse_one task per ticker
BatchCall(c, n) ==
    /\ ~batch[c].active
    /\ batch' = [batch EXCEPT ![c] = [active |-> TRUE, pending |-> n,
                                      holding |-> 0, hung |-> 0]]
    /\ UNCHANGED _batch_semaphore
    /\ UNCHANGED <<schedVars, mergeVars, deltaVars, analyseVars, runVars, pureVars>>

\* line 409, __aenter__: a task of call c acquires a slot (it waits while
\* the value is 0)
Acquire(c) ==
    /\ batch[c].pending > 0
    /\ LET value == _get_batch_semaphore(_batch_semaphore) IN
         /\ value > 0
         /\ _batch_semaphore' = value - 1
    /\ batch' = [batch EXCEPT ![c].pending = @ - 1, ![c].holding = @ + 1]
    /\ UNCHANGED <<schedVars, mergeVars, deltaVars, analyseVars, runVars, pureVars>>

\* __aexit__ that keeps the slot while a task of the same call is stuck
ValueAfterRelease_Deferred(value, hung) == IF hung > 0 THEN value ELSE value + 1

\* line 409, __aexit__ (Semaphore.release): the value after a task has left
\* the section, `hung` tasks of its call being stuck
ValueAfterRelease(value, hung) == value + 1

\* how the body of _analyse_one ends
BodyOutcomes == {"returned", "raised"}

\* a section that gives the slot back only when its body returned
SlotBack_OnlyOnReturn(outcome) == outcome = "returned"

\* line 409, async with: __aexit__ runs when the body returned and when it
\* raised
SlotBack(outcome) == TRUE

\* line 409, __aexit__: the body of a task that is not stuck returned or
\* raised, the slot is given back
Release(c) ==
    /\ batch[c].holding > batch[c].hung
    /\ \E outcome \in BodyOutcomes :
         _batch_semaphore' =
            IF SlotBack(outcome)
            THEN ValueAfterRelease(_batch_semaphore, batch[c].hung)
            ELSE _batch_semaphore
    /\ batch' = [batch EXCEPT ![c].holding = @ - 1]
    /\ UNCHANGED <<schedVars, mergeVars, deltaVars, analyseVars, runVars, pureVars>>

\* lines 435-453: gather has collected all tasks of the call, the call
\* returns
BatchReturn(c) ==
    /\ batch[c].active
    /\ batch[c].pending = 0
    /\ batch[c].holding = 0
    /\ batch' = [batch EXCEPT ![c] = NoCall]
    /\ UNCHANGED _batch_semaphore
    /\ UNCHANGED <<schedVars, mergeVars, deltaVars, analyseVars, runVars, pureVars>>

BatchNext ==
    \/ \E c \in CallIds, n \in 1..MaxTickers : BatchCall(c, n)
    \/ \E c \in CallIds : Acquire(c)
    \/ \E c \in CallIds : Release(c)
    \/ \E c \in CallIds : BatchReturn(c)

\* the calls of the runs in which every provider call ends: two calls that
\* overlap in any way
FairCalls == {1, 2}

FairNext ==
    \/ \E c \in FairCalls, n \in 1..MaxTickers : BatchCall(c, n)
    \/ \E c \in CallIds : Acquire(c)
    \/ \E c \in CallIds : Release(c)
    \/ \E c \in CallIds : BatchReturn(c)

RECURSIVE HungUpTo(_)
\* the number of stuck tasks of the calls 1..c
HungUpTo(c) == IF c = 0 THEN 0 ELSE batch[c].hung + HungUpTo(c - 1)

\* lines 414-433: a provider call of a task inside the section never
\* returns; the task stays at its await for good
Hang(c) ==
    /\ batch[c].holding > batch[c].hung
    /\ HungUpTo(MaxCalls) < MaxHung
    /\ batch' = [batch EXCEPT ![c].hung = @ + 1]
    /\ UNCHANGED _batch_semaphore
    /\ UNCHANGED <<schedVars, mergeVars, deltaVars, analyseVars, runVars, pureVars>>

\* the calls of the runs with stuck provider calls: the call of a stuck task
\* and one other call
HangCalls == {1, 2}

HangNext ==
    \/ \E c \in HangCalls, n \in 1..MaxTickers : BatchCall(c, n)
    \/ \E c \in CallIds : Acquire(c)
    \/ \E c \in CallIds : Release(c)
    \/ \E c \in CallIds : BatchReturn(c)
    \/ \E c \in CallIds : Hang(c)

\* ------------------------------------------------------------------------
\* get_ranked_watchlist : the merge pass over the screening rows
\* ------------------------------------------------------------------------
Tickers == {"AAA", "BBB"}

\* the sources in the order get_ranked_watchlist processes them
Algorithms == <<"maverick_bullish", "supply_demand_breakout", "maverick_bearish">>

\* composite scores of the rows, in hundredths of a point.  None of them
\* lies halfway between two tenths; 4996 rounds up, 5012 and 5014 round down
\* to the same tenth.
Composites == {4990, 4996, 5012, 5014}

NoCand == [composite_score |-> None, algorithms |-> <<>>]

\* round(composite, 1), on hundredths (a halfway value goes to the even tenth)
Round1(c) ==
    LET r == c % 10
        lo == c - r
    IN  IF r < 5 THEN lo
        ELSE IF r > 5 THEN lo + 10
        ELSE IF (lo \div 10) % 2 = 0 THEN lo ELSE lo + 10

Max(a, b) == IF a >= b THEN a ELSE b

Contains(seq, x) == \E i \in 1..Len(seq) : seq[i] = x

\* _merge_candidate whose repeat-sighting branch stores the score of the row
\* at hand instead of the maximum
_merge_candidate_LastSeen(cands, ticker, composite, algorithm) ==
    IF cands[ticker] = NoCand \/ composite > cands[ticker].composite_score
    THEN [cands EXCEPT ![ticker] =
            [composite_score |-> Round1(composite), algorithms |-> <<algorithm>>]]
    ELSE [cands EXCEPT ![ticker] =
            [composite_score |-> Round1(composite),
             algorithms |-> IF Contains(cands[ticker].algorithms, algorithm)
                            THEN cands[ticker].algorithms
                            ELSE Append(cands[ticker].algorithms, algorithm)]]

\* lines 280-300
_merge_candidate(cands, ticker, composite, algorithm) ==
    IF cands[ticker] = NoCand \/ composite > cands[ticker].composite_score
    THEN [cands EXCEPT ![ticker] =
            [composite_score |-> Round1(composite), algorithms |-> <<algorithm>>]]
    ELSE [cands EXCEPT ![ticker] =
            [composite_score |-> Max(cands[ticker].composite_score, Round1(composite)),
             algorithms |-> IF Contains(cands[ticker].algorithms, algorithm)
                            THEN cands[ticker].algorithms
                            ELSE Append(cands[ticker].algorithms, algorithm)]]

\* a dict whose replaced entry moves to the end of the key order (as after
\* del candidates[ticker] and a new insertion)
KeysAfterMerge_MoveOnReplace(keys, cands, ticker, composite) ==
    IF cands[ticker] = NoCand THEN Append(keys, ticker)
    ELSE IF composite > cands[ticker].composite_score
         THEN Append(SelectSeq(keys, LAMBDA k : k # ticker), ticker)
         ELSE keys

\* lines 289-295: the key order of the candidates dict after the merge.  A
\* new key goes to the end; assigning to a key the dict already has (line
\* 290, on a higher score) keeps the key where it is
KeysAfterMerge(keys, cands, ticker, composite) ==
    IF cands[ticker] = NoCand THEN Append(keys, ticker) ELSE keys

\* sorted(..., key=composite_score, reverse=True): a stable sort, so equal
\* scores keep the order of the dict
RECURSIVE InsertSorted(_, _, _)
InsertSorted(sorted, t, cands) ==
    IF sorted = <<>> THEN <<t>>
    ELSE IF cands[Head(sorted)].composite_score >= cands[t].composite_score
         THEN <<Head(sorted)>> \o InsertSorted(Tail(sorted), t, cands)
         ELSE <<t>> \o sorted

RECURSIVE SortByScore(_, _)
SortByScore(keys, cands) ==
    IF keys = <<>> THEN <<>>
    ELSE InsertSorted(SortByScore(SubSeq(keys, 1, Len(keys) - 1), cands),
                      keys[Len(keys)], cands)

\* the cut and the ranks taken on the dict as it stands, without the sort
Ranked_Unsorted(keys, cands, limit) ==
    LET cut == SubSeq(keys, 1, IF limit < Len(keys) THEN limit ELSE Len(keys))
    IN  [i \in 1..Len(cut) |->
            [ticker |-> cut[i], composite_score |-> cands[cut[i]].composite_score,
             algorithms |-> cands[cut[i]].algorithms, rank |-> i]]

\* lines 480-487: sort, cut to max_symbols, number the ranks
Ranked(keys, cands, limit) ==
    LET sorted == SortByScore(keys, cands)
        cut == SubSeq(sorted, 1, IF limit < Len(sorted) THEN limit ELSE Len(sorted))
    IN  [i \in 1..Len(cut) |->
            [ticker |-> cut[i], composite_score |-> cands[cut[i]].composite_score,
             algorithms |-> cands[cut[i]].algorithms, rank |-> i]]

\* the analysis dates of the rows, as day numbers
Dates == {1, 2}

\* the analysis date of the rows of a run whose rows are all of one day
OneDate == {2}

NoDates == <<None, None, None>>

NoResult == [status |-> "none"]

\* lines 507-509 (the message of the exception is left out)
ErrorResult == [status |-> "error"]

\* lines 460 and 472-473
algorithms_queried(bearish) ==
    IF bearish
    THEN <<"maverick_bullish", "supply_demand_breakout", "maverick_bearish">>
    ELSE <<"maverick_bullish", "supply_demand_breakout">>

\* lines 333-336, 377-380, 413-416: screening_date after a merged row
LatestDate(screening_date, date_analyzed) ==
    IF date_analyzed # None /\ (screening_date = None \/ date_analyzed > screening_date)
    THEN date_analyzed
    ELSE screening_date

\* min(all_dates) of line 497, None if all_dates is empty
RECURSIVE MinDate(_)
MinDate(ds) ==
    IF ds = <<>> THEN None
    ELSE LET rest == MinDate(Tail(ds)) IN
         IF Head(ds) = None THEN rest
         ELSE IF rest = None \/ Head(ds) < rest THEN Head(ds) ELSE rest

\* the result of a pass whose min(all_dates) is taken unguarded and raises on
\* an empty list
SuccessResult_NeedsDates(n, bearish, ds) ==
    IF MinDate(ds) = None THEN ErrorResult
    ELSE [status |-> "success",
          total_candidates |-> n,
          algorithms_queried |-> algorithms_queried(bearish),
          screening_date |-> ds[1],
          data_freshness |-> [oldest_date |-> MinDate(ds), maverick_date |-> ds[1],
                              supply_demand_date |-> ds[2], bear_date |-> ds[3]]]

\* lines 489-502: the dict returned by a pass that went through
SuccessResult(n, bearish, ds) ==
    [status |-> "success",
     total_candidates |-> n,
     algorithms_queried |-> algorithms_queried(bearish),
     screening_date |-> ds[1],
     data_freshness |-> [oldest_date |-> MinDate(ds), maverick_date |-> ds[1],
                         supply_demand_date |-> ds[2], bear_date |-> ds[3]]]

MergeInit ==
    /\ counts = 0
    /\ dates = NoDates
    /\ failed = 0
    /\ merge_result = NoResult
    /\ candidates = [t \in Tickers |-> NoCand]
    /\ order = <<>>
    /\ source = 0
    /\ include_bearish = FALSE
    /\ max_symbols = 0
    /\ nrows = 0
    /\ watchlist = <<>>
    /\ firstSeen = [t \in Tickers |-> <<>>]
    /\ rowMax = [t \in Tickers |-> None]
    /\ firstMerged = <<>>

\* lines 443-460: a call of get_ranked_watchlist starts a pass with an empty
\* candidates dict
BeginPass(bearish, limit) ==
    /\ source = 0
    /\ candidates' = [t \in Tickers |-> NoCand]
    /\ order' = <<>>
    /\ source' = 1
    /\ include_bearish' = bearish
    /\ max_symbols' = limit
    /\ nrows' = 0
    /\ watchlist' = <<>>
    /\ firstSeen' = [t \in Tickers |-> <<>>]
    /\ rowMax' = [t \in Tickers |-> None]
    /\ firstMerged' = <<>>
    /\ counts' = 0
    /\ dates' = NoDates
    /\ failed' = 0
    /\ merge_result' = NoResult
    /\ UNCHANGED <<schedVars, batchVars, deltaVars, analyseVars, runVars, pureVars>>

\* one iteration of the for loop of _process_maverick_stocks (source 1),
\* _process_supply_demand_stocks (2) or _process_bear_stocks (3) over a row
\* that has a ticker and is not older than the cutoff
MergeRow(ticker, composite, date_analyzed) ==
    /\ source \in 1..3
    /\ nrows < MaxRows
    /\ counts' = counts + 1
    /\ dates' = [dates EXCEPT ![source] = LatestDate(@, date_analyzed)]
    /\ UNCHANGED <<failed, merge_result>>
    /\ candidates' = _merge_candidate(candidates, ticker, composite, Algorithms[source])
    /\ order' = KeysAfterMerge(order, candidates, ticker, composite)
    /\ firstMerged' = IF Contains(firstMerged, ticker) THEN firstMerged
                      ELSE Append(firstMerged, ticker)
    /\ nrows' = nrows + 1
    /\ firstSeen' = [firstSeen EXCEPT ![ticker] =
                        IF Contains(@, Algorithms[source]) THEN @
                        ELSE Append(@, Algorithms[source])]
    /\ rowMax' = [rowMax EXCEPT ![ticker] = Max(@, Round1(composite))]
    /\ UNCHANGED <<source, include_bearish, max_symbols, watchlist>>
    /\ UNCHANGED <<schedVars, batchVars, deltaVars, analyseVars, runVars, pureVars>>

\* lines 314-315, 354-357, 394-395: an iteration over a row that is not
\* merged, for want of a ticker or, in the supply/demand source, because it
\* is older than the cutoff.  len(stocks) counts it (lines 338, 418), the
\* count of the supply/demand source does not (line 359)
SkipRow ==
    /\ source \in 1..3
    /\ nrows < MaxRows
    /\ nrows' = nrows + 1
    /\ counts' = IF source = 2 THEN counts ELSE counts + 1
    /\ UNCHANGED <<candidates, order, source, include_bearish, max_symbols,
                   watchlist, firstSeen, rowMax, dates, failed, merge_result,
                   firstMerged>>
    /\ UNCHANGED <<schedVars, batchVars, deltaVars, analyseVars, runVars, pureVars>>

\* the rows of the current source are exhausted: go on to the next source
\* (the bearish one only if include_bearish), or rank and return
EndSource ==
    /\ source \in 1..3
    /\ IF source = 1 \/ (source = 2 /\ include_bearish)
       THEN /\ source' = source + 1
            /\ UNCHANGED <<watchlist, merge_result>>
       ELSE /\ source' = 0
            /\ watchlist' = Ranked(order, candidates, max_symbols)
            /\ merge_result' = SuccessResult(counts, include_bearish, dates)
    /\ UNCHANGED <<candidates, order, include_bearish, max_symbols, nrows, firstSeen,
                   rowMax, counts, dates, failed, firstMerged>>
    /\ UNCHANGED <<schedVars, batchVars, deltaVars, analyseVars, runVars, pureVars>>

\* lines 463-476 and 507-509: the query or the loop of the current source
\* raises; the one handler of get_ranked_watchlist returns the error dict,
\* which has no watchlist, and the candidates gathered so far are dropped
SourceRaises ==
    /\ source \in 1..3
    /\ failed' = source
    /\ source' = 0
    /\ merge_result' = ErrorResult
    /\ watchlist' = <<>>
    /\ candidates' = [t \in Tickers |-> NoCand]
    /\ order' = <<>>
    /\ rowMax' = [t \in Tickers |-> None]
    /\ counts' = 0
    /\ dates' = NoDates
    /\ UNCHANGED <<include_bearish, max_symbols, nrows, firstSeen, firstMerged>>
    /\ UNCHANGED <<schedVars, batchVars, deltaVars, analyseVars, runVars, pureVars>>

MergeNext ==
    \/ \E bearish \in BOOLEAN, limit \in 0..MaxSymbols : BeginPass(bearish, limit)
    \/ \E ticker \in Tickers, composite \in Composites, date_analyzed \in OneDate :
          MergeRow(ticker, composite, date_analyzed)
    \/ SkipRow
    \/ EndSource
    \/ SourceRaises

\* passes over rows of several analysis dates, rows without a date and rows
\* that are not merged
FreshNext ==
    \/ \E bearish \in BOOLEAN : BeginPass(bearish, MaxSymbols)
    \/ \E date_analyzed \in Dates \cup {None} : MergeRow("AAA", 5012, date_analyzed)
    \/ SkipRow
    \/ EndSource
    \/ SourceRaises

\* ========================================================================
\* Snapshot and delta tracker (trader_api.py)
\* ========================================================================
\* the tickers of the watchlists served to the tracker, in ascending
\* lexicographic order
WatchTickers == <<"A", "B", "C", "D">>

Entry(t, score) == [ticker |-> t, composite_score |-> score]

\* the watchlists the ranking serves in the model (scores in hundredths of a
\* point, already rounded to one decimal): the empty one, {A,B,C} and
\* {B,C,D}, two that hold the same candidates in the two orders of a tie,
\* and one with the tickers of the latter and another score
Watchlists ==
    { <<>>,
      <<Entry("A", 5010), Entry("B", 5000), Entry("C", 4990)>>,
      <<Entry("D", 5010), Entry("B", 5000), Entry("C", 4990)>>,
      <<Entry("A", 5010), Entry("B", 5010)>>,
      <<Entry("B", 5010), Entry("A", 5010)>>,
      <<Entry("A", 5010), Entry("B", 5000)>> }

\* the values get_ranked_watchlist returns: a ranking, or the error dict of
\* its except branch, which has no watchlist key
RankedResults ==
    {[status |-> "success", watchlist |-> w] : w \in Watchlists}
        \cup {[status |-> "error", watchlist |-> <<>>]}

\* result.get("watchlist", [])
WatchlistOf(r) == IF r.status = "success" THEN r.watchlist ELSE <<>>

\* [s.get("ticker", ...) for s in watchlist]
TickersOf(wl) == [i \in 1..Len(wl) |-> wl[i].ticker]

SetOf(seq) == {seq[i] : i \in 1..Len(seq)}

\* round(score, 2): the hundredth nearest to a score held in hundredths
\* (taken through thousandths)
Round2(c) == (c * 10 + 5) \div 10

\* the text json.dumps(..., sort_keys=True) produces: one object per
\* candidate in the order of the list, each with its keys sorted, "s" before
\* "t"
Canon(stocks) ==
    [i \in 1..Len(stocks) |-> <<Round2(stocks[i].composite_score), stocks[i].ticker>>]

\* a hash string: its length, and for the 16 hex digits of a SHA-256 the
\* text that was digested (two texts have one digest only if they are equal)
EmptyString == [len |-> 0, digest |-> <<>>]
\* None where a string is expected
NoneString == [len |-> None, digest |-> <<>>]
HexDigest16(text) == [len |-> 16, digest |-> text]

\* lines 185-193
_content_hash(stocks) == HexDigest16(Canon(stocks))

\* a well-formed hash that no watchlist of the model has
NeverIssued == HexDigest16(<<<<0, "Z">>>>)

\* _take_snapshot that drops the snapshot just appended when the buffer is
\* full
_take_snapshot_PopNewest(snaps, wl, ts) ==
    LET snap == [timestamp |-> ts, content_hash |-> _content_hash(wl),
                 count |-> Len(wl), tickers |-> TickersOf(wl)]
        appended == Append(snaps, snap)
    IN  IF Len(appended) > _MAX_SNAPSHOTS
        THEN SubSeq(appended, 1, Len(appended) - 1)
        ELSE appended

\* lines 210-224: the buffer after the call (the label of a snapshot is read
\* by no operation and is left out)
_take_snapshot(snaps, wl, ts) ==
    LET snap == [timestamp |-> ts, content_hash |-> _content_hash(wl),
                 count |-> Len(wl), tickers |-> TickersOf(wl)]
        appended == Append(snaps, snap)
    IN  IF Len(appended) > _MAX_SNAPSHOTS THEN Tail(appended) ELSE appended

\* line 268, with the test inverted
IsCurrent_Inverted(since_hash, current_hash) ==
    since_hash # EmptyString /\ since_hash # current_hash

\* line 268: if since_hash and since_hash == current_hash
IsCurrent(since_hash, current_hash) ==
    since_hash # EmptyString /\ since_hash = current_hash

\* lines 276-280, falling back on the newest snapshot when none matches
prev_tickers_FallBack(snaps, since_hash) ==
    LET I == {i \in 1..Len(snaps) : snaps[i].content_hash = since_hash}
    IN  IF I # {} THEN snaps[CHOOSE i \in I : \A j \in I : j <= i].tickers
        ELSE IF snaps # <<>> THEN snaps[Len(snaps)].tickers
        ELSE <<>>

\* lines 276-280: the tickers of the newest snapshot whose content_hash is
\* since_hash, [] when there is none
prev_tickers(snaps, since_hash) ==
    LET I == {i \in 1..Len(snaps) : snaps[i].content_hash = since_hash}
    IN  IF I = {} THEN <<>>
        ELSE snaps[CHOOSE i \in I : \A j \in I : j <= i].tickers

\* sorted(...) of a set of tickers: ascending
RECURSIVE SortedFrom(_, _)
SortedFrom(S, i) ==
    IF i > Len(WatchTickers) THEN <<>>
    ELSE (IF WatchTickers[i] \in S THEN <<WatchTickers[i]>> ELSE <<>>)
            \o SortedFrom(S, i + 1)

sorted(S) == SortedFrom(S, 1)

\* line 291 with the two sets exchanged
entries_Exchanged(current_set, prev_set) == sorted(prev_set \ current_set)

\* line 291
entries(current_set, prev_set) == sorted(current_set \ prev_set)

\* line 292
exits(current_set, prev_set) == sorted(prev_set \ current_set)

\* lines 252-296: the buffer after the call and the value returned
screening_deltas(snaps, result, since_hash, ts) ==
    LET wl == WatchlistOf(result)
        current_hash == _content_hash(wl)
        current_tickers == TickersOf(wl)
        current_set == SetOf(current_tickers)
        prev_set == SetOf(prev_tickers(snaps, since_hash))
    IN  IF IsCurrent(since_hash, current_hash)
        THEN [snapshots |-> snaps,
              returned |-> [op |-> "deltas", changed |-> FALSE,
                            content_hash |-> current_hash,
                            unchanged_count |-> Len(wl)]]
        ELSE [snapshots |-> _take_snapshot(snaps, wl, ts),
              returned |-> [op |-> "deltas", changed |-> TRUE,
                            content_hash |-> current_hash,
                            previous_hash |-> IF since_hash = EmptyString
                                              THEN NoneString ELSE since_hash,
                            entries |-> entries(current_set, prev_set),
                            exits |-> exits(current_set, prev_set),
                            unchanged_count |-> Cardinality(current_set \cap prev_set),
                            current_count |-> Len(current_tickers),
                            timestamp |-> ts]]

\* the since_hash values a caller passes: none, the hash of each watchlist
\* of the model, and one that was never issued
SinceHashes == {EmptyString, NeverIssued} \cup {_content_hash(w) : w \in Watchlists}

NoResponse == [op |-> "none"]

\* no change-hash check is being followed
NoCheck == [at |-> 0, content_hash |-> NoneString, watchlist |-> <<>>]

DeltaInit ==
    /\ _screening_snapshots = <<>>
    /\ ranked = [status |-> "success", watchlist |-> <<>>]
    /\ now = 0
    /\ request = NoneString
    /\ response = NoResponse
    /\ checked = NoCheck

\* the screening data or the ranking cache changes: get_ranked_watchlist
\* returns another value from now on
Rescreen(r) ==
    /\ now < ChangeWindow
    /\ r # ranked
    /\ ranked' = r
    /\ request' = NoneString
    /\ response' = NoResponse
    /\ UNCHANGED <<_screening_snapshots, now, checked>>
    /\ UNCHANGED <<schedVars, batchVars, mergeVars, analyseVars, runVars, pureVars>>

\* lines 227-249 without the call of line 241: the change-hash endpoint
\* answers and takes no snapshot
CacheInfo_NoSnapshot ==
    /\ now < MaxSnapshots
    /\ _screening_snapshots' = _screening_snapshots
    /\ now' = now + 1
    /\ request' = NoneString
    /\ response' = [op |-> "cache-info",
                    content_hash |-> _content_hash(WatchlistOf(ranked)),
                    count |-> Len(WatchlistOf(ranked))]
    /\ UNCHANGED ranked
    /\ UNCHANGED <<schedVars, batchVars, mergeVars, analyseVars, runVars, pureVars>>

\* lines 227-249 (the staleness and timestamp fields of the answer repeat
\* the ranking's own timestamp and are left out)
CacheInfo ==
    /\ now < MaxSnapshots
    /\ _screening_snapshots' =
            _take_snapshot(_screening_snapshots, WatchlistOf(ranked), now + 1)
    /\ now' = now + 1
    /\ request' = NoneString
    /\ response' = [op |-> "cache-info",
                    content_hash |-> _content_hash(WatchlistOf(ranked)),
                    count |-> Len(WatchlistOf(ranked))]
    /\ UNCHANGED ranked
    /\ UNCHANGED <<schedVars, batchVars, mergeVars, analyseVars, runVars, pureVars>>

\* a call of the change-hash endpoint
screening_cache_info == CacheInfo /\ UNCHANGED checked

\* a call of the change-hash endpoint that is followed from here on: the
\* hash it returned, the watchlist it hashed and the time of its snapshot
\* are kept (one call per behaviour is followed, any one)
HashCheck ==
    /\ checked = NoCheck
    /\ ranked.status = "success"
    /\ CacheInfo
    /\ checked' = [at |-> now', content_hash |-> response'.content_hash,
                   watchlist |-> ranked.watchlist]

\* lines 252-296
Deltas(since_hash) ==
    LET d == screening_deltas(_screening_snapshots, ranked, since_hash, now + 1)
    IN  /\ d.returned.changed => now < MaxSnapshots
        /\ _screening_snapshots' = d.snapshots
        /\ now' = IF d.returned.changed THEN now + 1 ELSE now
        /\ request' = since_hash
        /\ response' = d.returned
        /\ UNCHANGED <<ranked, checked>>
        /\ UNCHANGED <<schedVars, batchVars, mergeVars, analyseVars, runVars, pureVars>>

DeltaNext ==
    \/ \E r \in RankedResults : Rescreen(r)
    \/ screening_cache_info
    \/ \E h \in SinceHashes : Deltas(h)

\* the since_hash values passed while a check is followed: the hash the
\* check returned, and one that was never issued
TrackedHashes ==
    {NeverIssued} \cup (IF checked = NoCheck THEN {} ELSE {checked.content_hash})

TrackNext ==
    \/ \E r \in RankedResults : Rescreen(r)
    \/ screening_cache_info
    \/ HashCheck
    \/ \E h \in TrackedHashes : Deltas(h)

\* ========================================================================
\* batch_analysis, one call followed task by task (trader_api.py)
\* ========================================================================
\* the tickers a request names, and the keys of its fingerprints dict
RequestTickers == {"aaa", "BBB"}
FingerprintKeys == {"AAA", "BBB"}

\* t.upper()
upper(t) == IF t = "aaa" THEN "AAA" ELSE t

\* body.tickers: 1 to MaxBatchLen tickers, repetitions allowed
TickerLists == UNION {[1..n -> RequestTickers] : n \in 1..MaxBatchLen}

NoBody == [tickers |-> <<>>, fingerprints |-> {}, include_news |-> FALSE]

\* a task that has not yet entered the semaphore
NewAnalysis == [pc |-> "waiting", tech |-> "idle", sr |-> "idle", news |-> "idle"]

NoBatchResponse == [status |-> "none"]

\* line 420 with the test always true: every ticker takes the parallel path
known_fp_is_None_Always(b, i) == TRUE

\* line 410 and line 420: known_fps.get(ticker) is None, for the task of
\* position i (ticker is the upper-cased name)
known_fp_is_None(b, i) == upper(b.tickers[i]) \notin b.fingerprints

\* what the technical analysis does: it returns a result, returns the
\* status unchanged, or raises
TechOutcomes == {"ok", "unchanged", "raised"}

\* what a support/resistance or news fetch does: it returns or raises
ExtrasOutcomes == {"ok", "raised"}

\* line 429 without the test: the extras are fetched in any case
SkipExtras_Never(tech) == FALSE

\* line 429: isinstance(tech, dict) and tech.get("status") == "unchanged"
SkipExtras(tech) == tech = "unchanged"

\* line 382 without return_exceptions: the first exception of a fetch leaves
\* _fetch_extras
ExtrasRaise_Propagate(sr, news) == sr = "raised" \/ news = "raised"

\* line 382: gather(..., return_exceptions=True) hands the exceptions of the
\* fetches back as values, so _fetch_extras itself does not raise
ExtrasRaise(sr, news) == FALSE

\* lines 379-381: _fetch_extras starts the support/resistance fetch, and the
\* news fetch if include_news
StartExtras(a, include_news) ==
    [a EXCEPT !.sr = "running",
              !.news = IF include_news THEN "running" ELSE "idle"]

\* line 382: both fetches of _fetch_extras have finished
ExtrasDone(a) == a.sr # "running" /\ a.news # "running"

\* the task is inside "async with _get_batch_semaphore()"
InSection(a) == a.pc \in {"tech", "extras", "gather"}

\* lines 420-433: the task runs on from its await as far as it can.
\* pc "gather" is the await of line 422 (its gather raises as soon as one of
\* the two raises), "tech" the await of line 428, "extras" that of line 432
Resume(a, include_news) ==
    CASE a.pc = "gather" ->
            IF a.tech = "raised" \/ (ExtrasDone(a) /\ ExtrasRaise(a.sr, a.news))
            THEN [a EXCEPT !.pc = "raised"]
            ELSE IF a.tech = "running" \/ ~ExtrasDone(a) THEN a
            ELSE [a EXCEPT !.pc = "returned"]
      [] a.pc = "tech" ->
            IF a.tech = "running" THEN a
            ELSE IF a.tech = "raised" THEN [a EXCEPT !.pc = "raised"]
            ELSE IF SkipExtras(a.tech) THEN [a EXCEPT !.pc = "returned"]
            ELSE StartExtras([a EXCEPT !.pc = "extras"], include_news)
      [] a.pc = "extras" ->
            IF ~ExtrasDone(a) THEN a
            ELSE IF ExtrasRaise(a.sr, a.news) THEN [a EXCEPT !.pc = "raised"]
            ELSE [a EXCEPT !.pc = "returned"]
      [] OTHER -> a

\* lines 365-367
_unwrap_gathered(value) == IF value = "raised" THEN "error" ELSE value

\* lines 425, 430 and 433 with 383-385: the dict a returned task hands back;
\* "absent" stands for a key the dict does not have
data_of(a) ==
    IF a.sr = "idle"
    THEN [technical |-> a.tech, changed |-> "False",
          support_resistance |-> "absent", news |-> "absent"]
    ELSE [technical |-> _unwrap_gathered(a.tech), changed |-> "absent",
          support_resistance |-> _unwrap_gathered(a.sr),
          news |-> IF a.news = "idle" THEN "absent" ELSE _unwrap_gathered(a.news)]

\* lines 435-446 with a gather that lets the first exception through: the
\* call has no results when a task raised
results_of_AbortOnRaise(tickers, ana) ==
    LET done == {i \in 1..Len(tickers) : ana[i].pc = "returned"}
        keys == IF \E i \in 1..Len(tickers) : ana[i].pc = "raised"
                THEN {} ELSE {upper(tickers[i]) : i \in done}
    IN  [k \in keys |->
            data_of(ana[CHOOSE i \in done :
                            /\ upper(tickers[i]) = k
                            /\ \A j \in done : upper(tickers[j]) = k => j <= i])]

\* lines 435-446: the pairs of the tasks that returned, put into the dict in
\* the order of body.tickers (a later pair replaces an earlier one of the
\* same ticker); the tasks that raised are skipped
results_of(tickers, ana) ==
    LET done == {i \in 1..Len(tickers) : ana[i].pc = "returned"}
    IN  [k \in {upper(tickers[i]) : i \in done} |->
            data_of(ana[CHOOSE i \in done :
                            /\ upper(tickers[i]) = k
                            /\ \A j \in done : upper(tickers[j]) = k => j <= i])]

AnalyseInit ==
    /\ body = NoBody
    /\ analyses = <<>>
    /\ batch_pc = "idle"
    /\ batch_response = NoBatchResponse

\* the slot count after task record old became new: __aexit__ of line 409
\* gives the slot back when the task leaves the section
Released(old, new) ==
    IF InSection(old) /\ ~InSection(new)
    THEN _batch_semaphore + 1 ELSE _batch_semaphore

\* lines 389-438: the call arrives and schedules one _analyse_one task per
\* ticker
AnalyseCall(tickers, fingerprints, include_news) ==
    /\ batch_pc = "idle"
    /\ body = NoBody
    /\ body' = [tickers |-> tickers, fingerprints |-> fingerprints,
                include_news |-> include_news]
    /\ analyses' = [i \in 1..Len(tickers) |-> NewAnalysis]
    /\ batch_pc' = "gathering"
    /\ batch_response' = NoBatchResponse
    /\ UNCHANGED batchVars
    /\ UNCHANGED <<schedVars, mergeVars, deltaVars, runVars, pureVars>>

\* lines 409-428: the task of position i enters the semaphore and starts
\* its provider calls: without a fingerprint the technical analysis and
\* _fetch_extras together, with one the technical analysis alone
AnalyseAcquire(i) ==
    /\ i \in 1..Len(analyses)
    /\ analyses[i].pc = "waiting"
    /\ LET value == _get_batch_semaphore(_batch_semaphore) IN
         /\ value > 0
         /\ _batch_semaphore' = value - 1
    /\ analyses' = [analyses EXCEPT ![i] =
            IF known_fp_is_None(body, i)
            THEN StartExtras([@ EXCEPT !.pc = "gather", !.tech = "running"],
                             body.include_news)
            ELSE [@ EXCEPT !.pc = "tech", !.tech = "running"]]
    /\ UNCHANGED <<body, batch_pc, batch_response, batch>>
    /\ UNCHANGED <<schedVars, mergeVars, deltaVars, runVars, pureVars>>

\* the technical analysis of task i ends, and the task runs on
TechDone(i, outcome) ==
    /\ i \in 1..Len(analyses)
    /\ analyses[i].tech = "running"
    /\ LET a == Resume([analyses[i] EXCEPT !.tech = outcome], body.include_news) IN
         /\ analyses' = [analyses EXCEPT ![i] = a]
         /\ _batch_semaphore' = Released(analyses[i], a)
    /\ UNCHANGED <<body, batch_pc, batch_response, batch>>
    /\ UNCHANGED <<schedVars, mergeVars, deltaVars, runVars, pureVars>>

\* the support/resistance fetch of task i ends, and the task runs on
SrDone(i, outcome) ==
    /\ i \in 1..Len(analyses)
    /\ analyses[i].sr = "running"
    /\ LET a == Resume([analyses[i] EXCEPT !.sr = outcome], body.include_news) IN
         /\ analyses' = [analyses EXCEPT ![i] = a]
         /\ _batch_semaphore' = Released(analyses[i], a)
    /\ UNCHANGED <<body, batch_pc, batch_response, batch>>
    /\ UNCHANGED <<schedVars, mergeVars, deltaVars, runVars, pureVars>>

\* the news fetch of task i ends, and the task runs on
NewsDone(i, outcome) ==
    /\ i \in 1..Len(analyses)
    /\ analyses[i].news = "running"
    /\ LET a == Resume([analyses[i] EXCEPT !.news = outcome], body.include_news) IN
         /\ analyses' = [analyses EXCEPT ![i] = a]
         /\ _batch_semaphore' = Released(analyses[i], a)
    /\ UNCHANGED <<body, batch_pc, batch_response, batch>>
    /\ UNCHANGED <<schedVars, mergeVars, deltaVars, runVars, pureVars>>

\* lines 435-453: every task has returned or raised; the call builds the
\* result map and returns
AnalyseReturn ==
    /\ batch_pc = "gathering"
    /\ \A i \in 1..Len(analyses) : analyses[i].pc \in {"returned", "raised"}
    /\ LET results == results_of(body.tickers, analyses) IN
         batch_response' = [status |-> "success",
                            count |-> Cardinality(DOMAIN results),
                            results |-> results]
    /\ batch_pc' = "idle"
    /\ UNCHANGED <<body, analyses>>
    /\ UNCHANGED batchVars
    /\ UNCHANGED <<schedVars, mergeVars, deltaVars, runVars, pureVars>>

AnalyseNext ==
    \/ \E tickers \in TickerLists, fingerprints \in SUBSET FingerprintKeys,
          include_news \in BOOLEAN :
            AnalyseCall(tickers, fingerprints, include_news)
    \/ \E i \in 1..MaxBatchLen : AnalyseAcquire(i)
    \/ \E i \in 1..MaxBatchLen, outcome \in TechOutcomes : TechDone(i, outcome)
    \/ \E i \in 1..MaxBatchLen, outcome \in ExtrasOutcomes : SrDone(i, outcome)
    \/ \E i \in 1..MaxBatchLen, outcome \in ExtrasOutcomes : NewsDone(i, outcome)
    \/ AnalyseReturn

\* ------------------------------------------------------------------------
\* _staleness_label : the age of a timestamp as a label
\* ------------------------------------------------------------------------
\* the instant of the call, in milliseconds
StalenessNow == 2 * STALE_SECONDS * 1000

\* the ages of the timestamps, in milliseconds: the instant of the call, an
\* instant after it, and the instants around the two thresholds
Ages ==
    {0 - 1000, 0}
      \cup {FRESH_SECONDS * 1000 + d : d \in (0 - AgeWindow)..AgeWindow}
      \cup {STALE_SECONDS * 1000 + d : d \in (0 - AgeWindow)..AgeWindow}

\* the strings handed to _staleness_label: an ISO timestamp with a UTC
\* offset, one without, and a string that is no ISO timestamp
Timestamps ==
    [form : {"aware", "naive", "garbage"}, at : {StalenessNow - a : a \in Ages}]

\* datetime.fromisoformat: ValueError for a string that is no ISO timestamp,
\* otherwise the datetime, aware or naive as the string has an offset or not
fromisoformat(ts) ==
    IF ts.form = "garbage" THEN [raised |-> "ValueError"]
    ELSE [raised |-> "none", aware |-> (ts.form = "aware"), at |-> ts.at]

\* lines 196-207.  The subtraction of a naive datetime from the aware now
\* raises TypeError, which the handler of line 201 turns into "unknown"
_staleness_label(ts) ==
    LET dt == fromisoformat(ts) IN
      IF dt.raised # "none" \/ ~dt.aware THEN "unknown"
      ELSE LET age == StalenessNow - dt.at IN
             IF age < FRESH_SECONDS * 1000 THEN "fresh"
             ELSE IF age < STALE_SECONDS * 1000 THEN "stale"
             ELSE "expired"

\* a call of _staleness_label
StalenessLabel ==
    /\ staleness_label = "none"
    /\ staleness_label' = _staleness_label(staleness_ts)
    /\ UNCHANGED <<staleness_ts, march_1, utc_now, et_offset>>
    /\ UNCHANGED <<schedVars, batchVars, mergeVars, deltaVars, analyseVars, runVars>>

StaleNext ==
    \/ StalenessLabel

\* ------------------------------------------------------------------------
\* _get_et_now : the UTC offset of the exchange-local now
\* ------------------------------------------------------------------------
\* lines 26-28: dst_start, 00:00 UTC of the second Sunday of March, in hours
\* since March 1 00:00 UTC
dst_start(march_1_weekday) == (((6 - march_1_weekday) % 7) + 7) * 24

\* lines 30-31: dst_end, 00:00 UTC of the first Sunday of November.
\* November 1 falls on the weekday of March 1
dst_end(march_1_weekday) ==
    LET nov_1_weekday == (march_1_weekday + MARCH_TO_NOVEMBER_DAYS) % 7
    IN  (MARCH_TO_NOVEMBER_DAYS + ((6 - nov_1_weekday) % 7)) * 24

\* lines 33-35: the offset of the zone of the datetime returned
EtOffset(march_1_weekday, hour) ==
    IF dst_start(march_1_weekday) <= hour /\ hour < dst_end(march_1_weekday)
    THEN ET_OFFSET_DAYLIGHT
    ELSE ET_OFFSET_STANDARD

\* the instants of the calls: the hours around the two switches
Hours(march_1_weekday) ==
    {dst_start(march_1_weekday) + d : d \in (0 - SwitchWindow)..SwitchWindow}
      \cup {dst_end(march_1_weekday) + d : d \in (0 - SwitchWindow)..SwitchWindow}

\* a call of _get_et_now
GetEtNow ==
    /\ et_offset = 0
    /\ et_offset' = EtOffset(march_1, utc_now)
    /\ UNCHANGED <<staleness_ts, staleness_label, march_1, utc_now>>
    /\ UNCHANGED <<schedVars, batchVars, mergeVars, deltaVars, analyseVars, runVars>>

EtNext ==
    \/ GetEtNow

\* no call of the two functions is made
PureIdle ==
    /\ staleness_ts = [form |-> "garbage", at |-> 0]
    /\ staleness_label = "none"
    /\ march_1 = 0
    /\ utc_now = 0
    /\ et_offset = 0

\* a timestamp is about to be labelled
StaleInit ==
    /\ staleness_ts \in Timestamps
    /\ staleness_label = "none"
    /\ march_1 = 0
    /\ utc_now = 0
    /\ et_offset = 0

\* _get_et_now is about to be called in a year and at an hour
EtInit ==
    /\ staleness_ts = [form |-> "garbage", at |-> 0]
    /\ staleness_label = "none"
    /\ march_1 \in 0..6
    /\ utc_now \in Hours(march_1)
    /\ et_offset = 0

\* the scheduler at rest, for the specifications that do not move it
SchedIdle == SchedInit /\ weekday0 = 4

SchedNext ==
    \/ Tick
    \/ Start
    \/ StopCall
    \/ StopReturn
    \/ Restart
    \/ \E t \in TaskIds : LoopWake(t)
    \/ \E t \in TaskIds : MaverickDone(t)
    \/ \E t \in TaskIds : BearDone(t)
    \/ \E t \in TaskIds : SupplyDemandDone(t)
    \/ \E t \in TaskIds : LoopCancelled(t)

\* the scheduler runs; no batch call and no merge pass is in progress
InitSched == SchedInit /\ BatchInit /\ MergeInit /\ DeltaInit /\ AnalyseInit /\ RunInit /\ PureIdle

SpecSched == InitSched /\ [][SchedNext]_vars

\* run_screening is called from outside the loop; the scheduler is at rest
InitRun == SchedIdle /\ BatchInit /\ MergeInit /\ DeltaInit /\ AnalyseInit /\ RunInit /\ PureIdle

SpecRun == InitRun /\ [][RunNext]_vars

\* the scheduler runs and run_screening is called from outside the loop
InitOnDemand == SchedInit /\ BatchInit /\ MergeInit /\ DeltaInit /\ AnalyseInit /\ RunInit /\ PureIdle

SpecOnDemand == InitOnDemand /\ [][OnDemandNext]_vars

\* timestamps are labelled; everything else is at rest
InitStale == SchedIdle /\ BatchInit /\ MergeInit /\ DeltaInit /\ AnalyseInit /\ RunInit /\ StaleInit

SpecStale == InitStale /\ [][StaleNext]_vars

\* _get_et_now is called; everything else is at rest
InitEt == SchedIdle /\ BatchInit /\ MergeInit /\ DeltaInit /\ AnalyseInit /\ RunInit /\ EtInit

SpecEt == InitEt /\ [][EtNext]_vars

\* batch_analysis calls run; the scheduler is at rest
InitBatch == SchedIdle /\ BatchInit /\ MergeInit /\ DeltaInit /\ AnalyseInit /\ RunInit /\ PureIdle

SpecBatch == InitBatch /\ [][BatchNext]_vars

\* every provider call returns or raises, the semaphore wakes its waiters
\* first come first served, and the event loop runs every task that can
\* run: a task that can enter the section again and again does so, a task in
\* the section leaves it, and a call whose tasks are all through returns
BatchFairness ==
    \A c \in FairCalls :
        SF_vars(Acquire(c)) /\ WF_vars(Release(c)) /\ WF_vars(BatchReturn(c))

SpecBatchFair == InitBatch /\ [][FairNext]_vars /\ BatchFairness

\* batch_analysis calls run and provider calls may hang; the scheduler is at
\* rest
InitHang == SchedIdle /\ BatchInit /\ MergeInit /\ DeltaInit /\ AnalyseInit /\ RunInit /\ PureIdle

SpecHang == InitHang /\ [][HangNext]_vars

\* asyncio.Semaphore wakes its waiters first come first served and a provider
\* call that is not stuck returns: a task that can enter or leave the section
\* again and again does so
HangFairness ==
    \A c \in HangCalls : SF_vars(Acquire(c)) /\ WF_vars(Release(c))

SpecHangFair == InitHang /\ [][HangNext]_vars /\ HangFairness

\* the tasks of call c that wait for a slot or work inside the section and
\* are not stuck
Unfinished(c) == batch[c].pending + batch[c].holding - batch[c].hung

\* merge passes run; the scheduler is at rest
InitMerge == SchedIdle /\ BatchInit /\ MergeInit /\ DeltaInit /\ AnalyseInit /\ RunInit /\ PureIdle

SpecMerge == InitMerge /\ [][MergeNext]_vars

\* merge passes over rows of several dates run; the scheduler is at rest
InitFresh == SchedIdle /\ BatchInit /\ MergeInit /\ DeltaInit /\ AnalyseInit /\ RunInit /\ PureIdle

SpecFresh == InitFresh /\ [][FreshNext]_vars

\* the hash and delta endpoints run; the scheduler is at rest
InitDelta == SchedIdle /\ BatchInit /\ MergeInit /\ DeltaInit /\ AnalyseInit /\ RunInit /\ PureIdle

SpecDelta == InitDelta /\ [][DeltaNext]_vars

\* the hash and delta endpoints run and one change-hash check is followed
InitTrack == SchedIdle /\ BatchInit /\ MergeInit /\ DeltaInit /\ AnalyseInit /\ RunInit /\ PureIdle

SpecTrack == InitTrack /\ [][TrackNext]_vars

\* one batch_analysis call at a time runs; the scheduler is at rest
InitAnalyse == SchedIdle /\ BatchInit /\ MergeInit /\ DeltaInit /\ AnalyseInit /\ RunInit /\ PureIdle

SpecAnalyse == InitAnalyse /\ [][AnalyseNext]_vars

\* ========================================================================
\* Properties of the scheduler (checked under SpecSched)
\* ========================================================================
LogIdx == 1..Len(log)

\* the exchange-local date, time of day and weekday of the clock
DateOf(c) == c \div TicksPerDay
TimeOf(c) == c % TicksPerDay
WeekdayOfDate(d) == (weekday0 + d) % 7

\* the step is a wake-up of task t whose iteration evaluated the trigger
WakeEval(t) ==
    /\ tasks[t].pc \in {"created", "sleep60", "sleep300"}
    /\ \/ tasks'[t].pc = "maverick"
       \/ tasks'[t].pc = "sleep60" /\ tasks'[t].sleep_left > tasks[t].sleep_left

\* the step is a wake-up of task t whose iteration raised
WakeFault(t) ==
    /\ tasks[t].pc \in {"created", "sleep60", "sleep300"}
    /\ tasks'[t].pc = "sleep300"
    /\ tasks'[t].sleep_left > tasks[t].sleep_left

\* C2: one loop task never starts the pipeline twice for the same
\* exchange-local date.
C2_OncePerDatePerLoop ==
    \A i, j \in LogIdx :
        (i < j /\ log[i].task = log[j].task) => log[i].date # log[j].date

\* a loop that fired on a weekday woke up again on that date, past the
\* configured time, and went back to sleep without firing
C2_Witness ==
    \E t \in TaskIds, i \in LogIdx :
        /\ log[i].task = t
        /\ log[i].date = DateOf(clock)
        /\ TimeOf(clock) > screening_time
        /\ tasks[t].pc = "sleep60"
        /\ tasks[t].status = "none"
        /\ _last_run_date = DateOf(clock)

\* C3: within one process the loop starts the pipeline at most once per
\* exchange-local date, over any interleaving of start(), stop() and
\* wake-ups.
C3_OncePerDatePerProcess ==
    \A i, j \in LogIdx :
        (i < j /\ log[i].epoch = log[j].epoch) => log[i].date # log[j].date

\* C4 (as claimed): a restart after the pipeline fired on a date does not
\* fire it again for that date.
C4_NoRefireAfterRestart ==
    \A i, j \in LogIdx :
        (i < j /\ log[i].epoch # log[j].epoch) => log[i].date # log[j].date

\* C4 (amended): a restart leaves the new scheduler stopped with
\* last_run_date unset, and a wake-up of its loop on a weekday at or after
\* the configured time with last_run_date still unset starts the pipeline,
\* also when the pipeline already fired on that date before the restart.
C4_RestartStep ==
    /\ (epoch' # epoch) => (_last_run_date' = None /\ ~_running' /\ _task' = NoTask)
    /\ \A t \in TaskIds :
         ( /\ WakeEval(t)
           /\ _last_run_date = None
           /\ epoch > 0
           /\ WeekdayOfDate(DateOf(clock)) < 5
           /\ TimeOf(clock) >= screening_time )
         => /\ Len(log') = Len(log) + 1
            /\ log'[Len(log')].date = DateOf(clock)

C4_RestartRefires == [][C4_RestartStep]_vars

\* the pipeline fired twice for one date, before and after a restart
C4_Witness ==
    \E i, j \in LogIdx :
        i < j /\ log[i].epoch # log[j].epoch /\ log[i].date = log[j].date

\* C5: a wake-up starts the pipeline if and only if now is Monday to Friday,
\* at or past the configured time, and last_run_date is unset or another
\* date.
C5_Step ==
    \A t \in TaskIds :
        WakeEval(t) =>
            ( (Len(log') = Len(log) + 1)
              <=> ( /\ WeekdayOfDate(DateOf(clock)) \in 0..4
                    /\ TimeOf(clock) >= screening_time
                    /\ (_last_run_date = None \/ _last_run_date # DateOf(clock)) ) )

C5_TriggerIff == [][C5_Step]_vars

\* the pipeline fired once, and a later wake-up on a Saturday or Sunday past
\* the configured time went back to sleep without firing
C5_Witness ==
    \E t \in TaskIds :
        /\ Len(log) > 0
        /\ tasks[t].pc = "sleep60"
        /\ tasks[t].sleep_left = NormalSleep
        /\ tasks[t].status = "none"
        /\ WeekdayOfDate(DateOf(clock)) >= 5
        /\ TimeOf(clock) >= screening_time
        /\ _last_run_date # DateOf(clock)

\* the date of the last pipeline start made by task t
LastFireDate(t) ==
    LET I == {i \in LogIdx : log[i].task = t}
    IN  log[CHOOSE i \in I : \A j \in I : j <= i].date

\* C6: when a loop-triggered run_screening returns, with any outcome, the
\* loop has set last_run_date to the trigger date when it starts its wait.
C6_Step ==
    \A t \in TaskIds :
        /\ (tasks[t].pc \in InFlightPcs /\ tasks'[t].pc = "sleep60")
              => _last_run_date' = LastFireDate(t)
        /\ (Len(log') = Len(log) + 1 /\ log'[Len(log')].task = t
              /\ tasks'[t].pc = "sleep60")
              => _last_run_date' = log'[Len(log')].date

C6_LastRunSetAfterCycle == [][C6_Step]_vars

\* a cycle whose run reported status failed has just returned
C6_Witness ==
    \E t \in TaskIds :
        /\ tasks[t].pc = "sleep60"
        /\ tasks[t].sleep_left = NormalSleep
        /\ tasks[t].status = "failed"
        /\ _last_run_date = LastFireDate(t)

\* C7: a cycle in flight when stop() is called is not aborted by the
\* cancellation: no cycle is ever abandoned inside run_screening.
C7_InFlightCycleCompletes ==
    \A t \in TaskIds : ~tasks[t].aborted

\* C8: an iteration that raises leaves last_run_date and the running flag
\* alone, keeps the loop alive, and the loop waits 300 s (5 ticks of 60 s)
\* before it evaluates the trigger again.
C8_Step ==
    \A t \in TaskIds :
        /\ WakeFault(t) =>
              /\ _last_run_date' = _last_run_date
              /\ _running /\ _running'
              /\ log' = log
              /\ tasks'[t].sleep_left = 300 \div 60
        /\ (tasks[t].pc = "sleep300" /\ (WakeEval(t) \/ WakeFault(t)))
              => tasks[t].sleep_left = 0
        /\ (tasks[t].pc = "sleep300" /\ tasks'[t].pc = "sleep300"
              /\ tasks'[t].sleep_left < tasks[t].sleep_left)
              => (clock' = clock + 1 /\ tasks'[t].sleep_left = tasks[t].sleep_left - 1)

C8_FaultBacksOff == [][C8_Step]_vars

\* an iteration raised at a moment when the day's run was due: the loop is in
\* its backoff sleep and the run is still due
C8_Witness ==
    \E t \in TaskIds :
        /\ tasks[t].pc = "sleep300"
        /\ tasks[t].sleep_left = BACKOFF_TICKS
        /\ _running
        /\ _last_run_date # DateOf(clock)
        /\ WeekdayOfDate(DateOf(clock)) < 5
        /\ TimeOf(clock) >= screening_time

\* the step is a start() that took effect / a stop() that went to await
\* the loop task / the return of that stop()
StartStep == ntasks' = ntasks + 1
StopStep == stopPc = "idle" /\ stopPc' = "awaiting"
StopReturnStep == stopPc = "awaiting" /\ stopPc' = "idle" /\ epoch' = epoch

\* STOPPED, with no stop() in progress
Stopped == ~_running /\ stopPc = "idle"

\* C9: start() takes a stopped scheduler to RUNNING, stop() leaves it
\* STOPPED; when stop() returns the loop task it awaited is finished; and
\* from the return of stop() until start() takes effect again the running
\* flag is false, the loop task is finished and no pipeline starts.
C9_Step ==
    /\ StartStep => (~_running /\ _running' /\ tasks'[_task'].pc = "created")
    /\ StopStep => (~_running' /\ stopTask' = _task /\ tasks'[_task].cancel)
    /\ (~_running /\ _running') => StartStep
    /\ StopReturnStep => tasks[stopTask].pc = "done"
    /\ Stopped' => (_task' # NoTask => tasks'[_task'].pc = "done")
    /\ Stopped => log' = log

C9_StartStop == [][C9_Step]_vars

\* stop() has returned after cancelling a loop, at a moment when the day's
\* run is due
C9_Witness ==
    /\ Stopped
    /\ _task # NoTask
    /\ tasks[_task].pc = "done"
    /\ WeekdayOfDate(DateOf(clock)) < 5
    /\ TimeOf(clock) >= screening_time
    /\ _last_run_date # DateOf(clock)

\* ========================================================================
\* Properties of batch_analysis (checked under SpecBatch)
\* ========================================================================
RECURSIVE HoldingUpTo(_)
HoldingUpTo(c) == IF c = 0 THEN 0 ELSE batch[c].holding + HoldingUpTo(c - 1)

\* the number of per-ticker tasks inside the critical section, all calls
\* taken together
Holding == HoldingUpTo(MaxCalls)

RECURSIVE PendingUpTo(_)
PendingUpTo(c) == IF c = 0 THEN 0 ELSE batch[c].pending + PendingUpTo(c - 1)

\* C1: at every moment at most 10 per-ticker tasks, over all calls in
\* flight, hold a slot of the shared semaphore.
C1_AtMostTenHolding == Holding <= 10

\* all 10 slots are taken by tasks of two calls in flight and further tasks
\* are waiting for a slot
C1_Witness ==
    /\ Holding = 10
    /\ PendingUpTo(MaxCalls) > 0
    /\ \A c \in 1..2 : batch[c].holding > 0

\* ========================================================================
\* Properties of the merge pass (checked under SpecMerge)
\* ========================================================================
\* C10: the algorithms list of every candidate holds exactly the tags of the
\* algorithms that produced a row for its ticker in this pass, each once, in
\* order of first appearance.
C10_AlgorithmsAreAllContributors ==
    \A t \in Tickers :
        candidates[t] # NoCand => candidates[t].algorithms = firstSeen[t]

\* C11: for every ticker of the candidates dict, at every point of the pass
\* and so after the last row of the last source, composite_score is the
\* largest 1-decimal-rounded composite of the rows that carried the ticker.
C11_ScoreIsMaxOfRows ==
    \A t \in Tickers :
        /\ (candidates[t] = NoCand) <=> (rowMax[t] = None)
        /\ candidates[t] # NoCand => candidates[t].composite_score = rowMax[t]

\* a pass of three or more rows has ended in which a ticker that got rows
\* from two sources, one of them rounding to 50.1, is on the watchlist
C11_Witness ==
    /\ source = 0
    /\ nrows >= 3
    /\ \E t \in Tickers :
          /\ candidates[t].composite_score = 5010
          /\ Len(firstSeen[t]) >= 2
          /\ \E i \in 1..Len(watchlist) : watchlist[i].ticker = t

\* ========================================================================
\* Properties of the snapshot and delta tracker (checked under SpecDelta)
\* ========================================================================
\* the watchlist the endpoints see at present, its hash and its tickers
Current == WatchlistOf(ranked)
CurrentHash == _content_hash(Current)
CurrentSet == SetOf(TickersOf(Current))

\* two watchlists hold the same (ticker, score rounded to 2 decimals) pairs,
\* each as often
SameCandidates(w1, w2) ==
    /\ Len(w1) = Len(w2)
    /\ \A i \in 1..Len(w1) :
         Cardinality({j \in 1..Len(w1) : Canon(w1)[j] = Canon(w1)[i]})
            = Cardinality({j \in 1..Len(w2) : Canon(w2)[j] = Canon(w1)[i]})

\* C12: a watchlist that holds the candidates of the current one in another
\* order has the content hash the hash endpoint has just returned.
C12_HashIgnoresOrder ==
    response.op = "cache-info" =>
        \A w \in Watchlists :
            SameCandidates(w, Current) => _content_hash(w) = response.content_hash

\* the step is a call of get_delta with since_hash h
DeltaCall(h) ==
    /\ request' = h
    /\ response'.op = "deltas"
    /\ <<request', response', now'>> # <<request, response, now>>

TickerIndex(t) == CHOOSE i \in 1..Len(WatchTickers) : WatchTickers[i] = t

\* seq lists exactly the tickers of S, in ascending order
AscendingListOf(seq, S) ==
    /\ SetOf(seq) = S
    /\ Len(seq) = Cardinality(S)
    /\ \A i, j \in 1..Len(seq) : i < j => TickerIndex(seq[i]) < TickerIndex(seq[j])

\* the indices of the snapshots whose content_hash is h
Matching(h) ==
    {i \in 1..Len(_screening_snapshots) : _screening_snapshots[i].content_hash = h}

\* C13: the buffer never holds more than 24 snapshots; it holds the most
\* recently taken ones, oldest first; and a snapshot taken when it holds 24
\* evicts exactly the oldest one.
C13_Step ==
    LET old == _screening_snapshots
        new == _screening_snapshots'
    IN  /\ Len(new) <= 24
        /\ \A i \in 1..Len(new) : new[i].timestamp = now' - Len(new) + i
        /\ now' # now =>
              /\ now' = now + 1
              /\ new[Len(new)].content_hash = CurrentHash
              /\ new[Len(new)].tickers = TickersOf(Current)
              /\ IF Len(old) = 24
                 THEN SubSeq(new, 1, 23) = Tail(old)
                 ELSE SubSeq(new, 1, Len(new) - 1) = old

C13_RingBuffer == [][C13_Step]_vars

\* 25 snapshots have been taken: the buffer holds the 2nd to the 25th
C13_Witness ==
    /\ now = 25
    /\ Len(_screening_snapshots) = 24
    /\ _screening_snapshots[1].timestamp = 2
    /\ _screening_snapshots[24].timestamp = 25

\* C14: every get_delta call appends exactly one snapshot of the current
\* watchlist, on the changed=false outcome as on the changed=true outcome.
C14_Step ==
    \A h \in SinceHashes :
        DeltaCall(h) =>
            /\ now' = now + 1
            /\ _screening_snapshots' # <<>>
            /\ _screening_snapshots'[Len(_screening_snapshots')].timestamp = now'
            /\ _screening_snapshots'[Len(_screening_snapshots')].content_hash = CurrentHash

C14_DeltaAlwaysSnapshots == [][C14_Step]_vars

\* C15: get_delta called with the content hash of the current watchlist,
\* the empty watchlist included, returns changed=false and the number of
\* candidates of the watchlist as unchanged_count.
C15_Step ==
    \A h \in SinceHashes :
        (DeltaCall(h) /\ h = CurrentHash) =>
            /\ response'.op = "deltas"
            /\ response'.changed = FALSE
            /\ response'.content_hash = h
            /\ response'.unchanged_count = Len(Current)

C15_OwnHashUnchanged == [][C15_Step]_vars

\* get_delta has answered changed=false with unchanged_count 0 for the
\* empty watchlist, at a moment when the buffer holds snapshots of other
\* watchlists
C15_Witness ==
    /\ response.op = "deltas"
    /\ response.changed = FALSE
    /\ response.unchanged_count = 0
    /\ Current = <<>>
    /\ ranked.status = "success"
    /\ \E i \in 1..Len(_screening_snapshots) : _screening_snapshots[i].count > 0

\* C16: when since_hash is not the current hash and snapshots with that
\* content_hash are in the buffer, get_delta answers changed=true with
\* entries = current minus previous and exits = previous minus current, both
\* ascending, and unchanged_count = size of the intersection, where previous
\* is the ticker list of the newest such snapshot.
C16_Step ==
    \A h \in SinceHashes :
        (DeltaCall(h) /\ h # CurrentHash /\ Matching(h) # {}) =>
            LET newest == CHOOSE i \in Matching(h) : \A j \in Matching(h) : j <= i
                previous == SetOf(_screening_snapshots[newest].tickers)
            IN  /\ response'.op = "deltas"
                /\ response'.changed = TRUE
                /\ AscendingListOf(response'.entries, CurrentSet \ previous)
                /\ AscendingListOf(response'.exits, previous \ CurrentSet)
                /\ response'.unchanged_count = Cardinality(CurrentSet \cap previous)

C16_DeltaAgainstSnapshot == [][C16_Step]_vars

\* with a snapshot of {A,B,C} in the buffer and {B,C,D} current, get_delta
\* called with the hash of that snapshot has answered entries [D], exits
\* [A], unchanged_count 2
C16_Witness ==
    /\ response.op = "deltas"
    /\ response.changed = TRUE
    /\ CurrentSet = {"B", "C", "D"}
    /\ \E i \in 1..Len(_screening_snapshots) :
          /\ _screening_snapshots[i].content_hash = response.previous_hash
          /\ SetOf(_screening_snapshots[i].tickers) = {"A", "B", "C"}
    /\ response.entries = <<"D">>
    /\ response.exits = <<"A">>
    /\ response.unchanged_count = 2

\* C17: when since_hash is neither the current hash nor the content_hash of
\* a snapshot in the buffer, get_delta answers changed=true with all current
\* tickers as entries, no exits and unchanged_count 0.
C17_Step ==
    \A h \in SinceHashes :
        (DeltaCall(h) /\ h # CurrentHash /\ Matching(h) = {}) =>
            /\ response'.op = "deltas"
            /\ response'.changed = TRUE
            /\ SetOf(response'.entries) = CurrentSet
            /\ Len(response'.entries) = Cardinality(CurrentSet)
            /\ response'.exits = <<>>
            /\ response'.unchanged_count = 0

C17_UnknownHashAllEntries == [][C17_Step]_vars

\* 25 or more snapshots have been taken, the buffer is full of snapshots of
\* the current watchlist, and get_delta called with the hash of another
\* watchlist of the model, of which no snapshot is left, has answered with
\* all three current tickers as entries
C17_Witness ==
    /\ now >= 25
    /\ Len(_screening_snapshots) = 24
    /\ response.op = "deltas"
    /\ response.changed = TRUE
    /\ response.previous_hash \in {_content_hash(w) : w \in Watchlists \ {<<>>}}
    /\ \A i \in 1..24 : _screening_snapshots[i].content_hash # response.previous_hash
    /\ Len(response.entries) = 3
    /\ SetOf(response.entries) = CurrentSet
    /\ response.exits = <<>>
    /\ response.unchanged_count = 0

\* ========================================================================
\* Properties of one batch_analysis call (checked under SpecAnalyse)
\* ========================================================================
Positions == 1..Len(analyses)

\* the key of the result map the task of position i writes
KeyOf(i) == upper(body.tickers[i])

\* the call has returned
Returned == batch_response.status = "success"

\* no later task of the same ticker handed back a pair
LastReturnedOfKey(i) ==
    \A j \in Positions :
        (j > i /\ KeyOf(j) = KeyOf(i)) => analyses[j].pc # "returned"

\* C18: for a ticker with a fingerprint whose technical analysis reports
\* unchanged, the support/resistance and the news provider are never
\* invoked by its task, and its result is the technical payload with
\* changed = false and nothing else.
C18_UnchangedSkipsExtras ==
    \A i \in Positions :
        (~known_fp_is_None(body, i) /\ analyses[i].tech = "unchanged") =>
            /\ analyses[i].sr = "idle"
            /\ analyses[i].news = "idle"
            /\ analyses[i].pc = "returned"
            /\ (Returned /\ LastReturnedOfKey(i)) =>
                  /\ KeyOf(i) \in DOMAIN batch_response.results
                  /\ batch_response.results[KeyOf(i)] =
                        [technical |-> "unchanged", changed |-> "False",
                         support_resistance |-> "absent", news |-> "absent"]

\* a call with news has returned in which one ticker was reported unchanged
\* and another, also with a fingerprint, was not and got its extras
C18_Witness ==
    /\ Returned
    /\ body.include_news
    /\ \E i, j \in Positions :
          /\ ~known_fp_is_None(body, i) /\ ~known_fp_is_None(body, j)
          /\ KeyOf(i) # KeyOf(j)
          /\ analyses[i].tech = "unchanged"
          /\ batch_response.results[KeyOf(i)].changed = "False"
          /\ analyses[j].tech = "ok"
          /\ analyses[j].sr = "ok"
          /\ analyses[j].news = "ok"

\* C19: the keys of the result map are exactly the upper-cased requested
\* tickers with a task that did not raise; a ticker whose tasks all raised
\* is absent, whatever the other tasks did; every key holds the result of a
\* task of its own ticker; and count is the number of keys.
C19_KeysAreTheTasksThatReturned ==
    Returned =>
        /\ DOMAIN batch_response.results =
              {KeyOf(i) : i \in {j \in Positions : analyses[j].pc # "raised"}}
        /\ \A i \in Positions :
              (\A j \in Positions : KeyOf(j) = KeyOf(i) => analyses[j].pc = "raised")
                  => KeyOf(i) \notin DOMAIN batch_response.results
        /\ \A i \in Positions :
              (analyses[i].pc # "raised" /\ LastReturnedOfKey(i)) =>
                  batch_response.results[KeyOf(i)].technical = analyses[i].tech
        /\ batch_response.count = Cardinality(DOMAIN batch_response.results)

\* a call for two tickers has returned: the task of one raised and the
\* ticker is absent, the other is present
C19_Witness ==
    /\ Returned
    /\ \E i, j \in Positions :
          /\ KeyOf(i) # KeyOf(j)
          /\ analyses[i].pc = "raised"
          /\ analyses[j].pc = "returned"
          /\ KeyOf(i) \notin DOMAIN batch_response.results
          /\ KeyOf(j) \in DOMAIN batch_response.results
    /\ batch_response.count = 1

\* C20: a ticker whose technical analysis returned a result and whose
\* support/resistance or news fetch raised is in the result map with its
\* technical result; each field whose fetch raised carries an error
\* payload and the other one its normal result.
C20_ExtrasFailureIsPerField ==
    Returned =>
        \A i \in Positions :
            ( /\ analyses[i].tech = "ok"
              /\ (analyses[i].sr = "raised" \/ analyses[i].news = "raised") ) =>
                /\ KeyOf(i) \in DOMAIN batch_response.results
                /\ LastReturnedOfKey(i) =>
                      LET data == batch_response.results[KeyOf(i)] IN
                        /\ data.technical = "ok"
                        /\ data.support_resistance =
                              (IF analyses[i].sr = "raised" THEN "error" ELSE "ok")
                        /\ data.news =
                              (IF analyses[i].news = "raised" THEN "error"
                               ELSE IF body.include_news THEN "ok" ELSE "absent")

\* a call has returned in which the news fetch of a ticker without a
\* fingerprint raised and the support/resistance fetch of a ticker with one
\* raised; both are in the result map
C20_Witness ==
    /\ Returned
    /\ \E i, j \in Positions :
          /\ known_fp_is_None(body, i) /\ ~known_fp_is_None(body, j)
          /\ analyses[i].news = "raised" /\ analyses[i].sr = "ok"
          /\ analyses[j].sr = "raised" /\ analyses[j].news = "ok"
          /\ KeyOf(i) \in DOMAIN batch_response.results
          /\ KeyOf(j) \in DOMAIN batch_response.results
          /\ batch_response.results[KeyOf(i)].news = "error"
          /\ batch_response.results[KeyOf(i)].support_resistance = "ok"
          /\ batch_response.results[KeyOf(j)].support_resistance = "error"
          /\ batch_response.results[KeyOf(j)].technical = "ok"

\* ========================================================================
\* Properties of calls with stuck provider calls (checked under SpecHangFair)
\* ========================================================================

\* the slots taken are those of the tasks inside the section, one each, the
\* stuck ones among them
SlotPerTask ==
    /\ _batch_semaphore # None => _batch_semaphore = BATCH_CAPACITY - Holding
    /\ \A c \in CallIds : batch[c].hung <= batch[c].holding

\* C21: while fewer than 10 per-ticker tasks are stuck on a provider call
\* that never returns, the other tasks of every call, the call of a stuck
\* task included, get a slot and run to completion; a stuck task holds one
\* slot, its own.
C21_StuckTasksHoldOnlyTheirSlot ==
    /\ []SlotPerTask
    /\ \A c \in HangCalls :
          []<>(HungUpTo(MaxCalls) >= BATCH_CAPACITY \/ Unfinished(c) = 0)

\* 9 tasks of the first call are stuck and every other task of that call is
\* through; the last task of the other call is inside the section on the one
\* slot left
C21_Witness ==
    /\ batch[1].hung = BATCH_CAPACITY - 1
    /\ Unfinished(1) = 0
    /\ batch[2].active /\ batch[2].hung = 0
    /\ batch[2].pending = 0 /\ batch[2].holding = 1
    /\ _batch_semaphore = 0

\* ========================================================================
\* Properties of the result of get_ranked_watchlist (checked under SpecMerge)
\* ========================================================================
\* a pass has ended, with a result or with an error
PassEnded == source = 0 /\ merge_result # NoResult

\* the tickers that got a row in this pass
Merged == {t \in Tickers : firstSeen[t] # <<>>}

Min(a, b) == IF a <= b THEN a ELSE b

\* C22: when one source raises while it is processed, the pass still ends
\* with status success and a watchlist of the candidates of the other
\* sources, and algorithms_queried does not name the source that raised.
C22_SourceFailureIsTolerated ==
    (PassEnded /\ failed # 0) =>
        /\ merge_result.status = "success"
        /\ Len(watchlist) = Min(max_symbols, Cardinality(Merged))
        /\ \A i \in 1..Len(watchlist) : watchlist[i].ticker \in Merged
        /\ \A i \in DOMAIN merge_result.algorithms_queried :
              merge_result.algorithms_queried[i] # Algorithms[failed]

\* C23: the watchlist of a pass that went through has pairwise distinct
\* tickers, non-increasing composite scores, min(max_symbols, number of
\* merged candidates) elements, and its i-th element has rank i.
C23_WatchlistIsRanked ==
    (PassEnded /\ merge_result.status = "success") =>
        /\ \A i, j \in 1..Len(watchlist) :
              i # j => watchlist[i].ticker # watchlist[j].ticker
        /\ \A i, j \in 1..Len(watchlist) :
              i < j => watchlist[i].composite_score >= watchlist[j].composite_score
        /\ Len(watchlist) = Min(max_symbols, Cardinality(Merged))
        /\ \A i \in 1..Len(watchlist) : watchlist[i].rank = i

\* a pass with room for two symbols has ended whose second merged ticker
\* scored higher than the first and leads the watchlist
C23_Witness ==
    /\ PassEnded /\ merge_result.status = "success"
    /\ max_symbols = 2
    /\ Len(watchlist) = 2
    /\ watchlist[1].ticker = order[2]
    /\ watchlist[1].composite_score > watchlist[2].composite_score
    /\ watchlist[2].rank = 2

\* C24: a pass in which no source returned a row ends with status success,
\* an empty watchlist and total_candidates 0.
C24_NoRowsIsSuccess ==
    (PassEnded /\ failed = 0 /\ nrows = 0) =>
        /\ merge_result.status = "success"
        /\ watchlist = <<>>
        /\ merge_result.total_candidates = 0

\* a pass over the three sources with room for symbols has ended without a
\* row
C24_Witness ==
    /\ PassEnded /\ failed = 0 /\ nrows = 0
    /\ include_bearish /\ max_symbols > 0
    /\ merge_result.status = "success"
    /\ merge_result.data_freshness.oldest_date = None

\* ========================================================================
\* Properties of run_screening (checked under SpecRun)
\* ========================================================================
Screeners == {"maverick", "bear", "supply_demand"}

\* C25: a run in which a screener raised has called all three screeners,
\* has stored the count of every screener that returned rows, reports 0 for
\* every screener that raised, and, its session closing without an
\* exception, returns status completed.
C25_ScreenersAreIsolated ==
    (ondemand.pc = "returned" /\ ondemand.raised # {}) =>
        /\ \A k \in Screeners : Contains(ondemand.ran, k)
        /\ \A k \in ondemand.raised : ondemand[k] = 0
        /\ \A k \in ondemand.rows : ondemand[k] = 1
        /\ ondemand.closed => ondemand.status = "completed"

\* a run has returned status completed in which the bear screener raised
\* and the other two returned rows, which were stored
C25_Witness ==
    /\ ondemand.pc = "returned"
    /\ ondemand.raised = {"bear"}
    /\ ondemand.rows = {"maverick", "supply_demand"}
    /\ ondemand.status = "completed"
    /\ ondemand.bear = 0 /\ ondemand.maverick = 1 /\ ondemand.supply_demand = 1

\* ========================================================================
\* Properties of the refresh step and of runs outside the loop
\* ========================================================================
\* task t has triggered the pipeline in this step
Fired(t) == Len(log') = Len(log) + 1 /\ log'[Len(log')].task = t

\* C26: a triggered cycle whose price refresh raised goes on into
\* run_screening in the same iteration, without a backoff, and when that
\* run returns the loop sets last_run_date to the date of the cycle and
\* starts its 60 s wait.
C26_Step ==
    \A t \in TaskIds :
        /\ (Fired(t) /\ ~tasks'[t].refresh_ok) => tasks'[t].pc = "maverick"
        /\ ( /\ tasks[t].pc = "supply_demand" /\ ~tasks[t].refresh_ok
             /\ tasks'[t].pc \in {"sleep60", "sleep300"} ) =>
                /\ tasks'[t].pc = "sleep60"
                /\ tasks'[t].sleep_left = NormalSleep
                /\ _last_run_date' = tasks[t].current_date

C26_RefreshFailureIsSwallowed == [][C26_Step]_vars

\* the refresh of a cycle raised and the run of that cycle has gone through
\* its first two screeners
C26_Witness ==
    \E t \in TaskIds :
        /\ tasks[t].pc = "supply_demand"
        /\ ~tasks[t].refresh_ok
        /\ tasks[t].current_date = DateOf(clock)
        /\ _last_run_date # tasks[t].current_date

\* C27: no step of a run of run_screening made outside the loop, for all
\* stocks or for a subset, through trigger_screening or through the
\* registration of a ticker, changes the running flag, last_run_date, the
\* loop task or the record of the pipeline starts of the loop.
C27_Step ==
    ondemand' # ondemand =>
        UNCHANGED <<_running, _last_run_date, _task, tasks, log>>

C27_OnDemandLeavesSchedulerAlone == [][C27_Step]_vars

\* a run made through trigger_screening has returned status completed on a
\* weekday past the screening time, while the loop of the started scheduler
\* sleeps and has not yet triggered: last_run_date is still unset and the
\* trigger condition of the loop holds
C27_Witness ==
    /\ ondemand.pc = "returned" /\ ondemand.via = "trigger"
    /\ ondemand.status = "completed"
    /\ _running /\ _last_run_date = None /\ Len(log) = 0
    /\ tasks[_task].pc = "sleep60"
    /\ ShouldTrigger(_get_et_now(clock), _last_run_date)

\* ========================================================================
\* Properties of _staleness_label (SpecStale) and _get_et_now (SpecEt)
\* ========================================================================
\* the age in milliseconds of the timestamp that was labelled
AgeOf(ts) == StalenessNow - ts.at

\* C28: a timestamp with an offset whose age is a seconds is labelled fresh
\* when a < 1800, stale when 1800 <= a <= 7200 and expired when a > 7200; a
\* string that is no timestamp is labelled unknown.
C28_StalenessLabel ==
    staleness_label # "none" =>
        /\ staleness_ts.form = "garbage" => staleness_label = "unknown"
        /\ staleness_ts.form = "aware" =>
              staleness_label =
                 IF AgeOf(staleness_ts) < 1800 * 1000 THEN "fresh"
                 ELSE IF AgeOf(staleness_ts) <= 7200 * 1000 THEN "stale"
                 ELSE "expired"

\* the instants at which the local clock reads 02:00 on the second Sunday of
\* March (standard time, 07:00 UTC) and on the first Sunday of November
\* (daylight time, 06:00 UTC), in hours since March 1 00:00 UTC
LocalSwitchOn(march_1_weekday) == dst_start(march_1_weekday) + 2 + 5
LocalSwitchOff(march_1_weekday) == dst_end(march_1_weekday) + 2 + 4

\* C29: the offset applied is UTC-4 exactly for the instants from 02:00
\* local time on the second Sunday of March up to 02:00 local time on the
\* first Sunday of November, and UTC-5 for every other instant.
C29_DaylightFromTwoLocal ==
    et_offset # 0 =>
        et_offset =
           IF LocalSwitchOn(march_1) <= utc_now /\ utc_now < LocalSwitchOff(march_1)
           THEN 0 - 4
           ELSE 0 - 5

\* ========================================================================
\* Properties of the dates of a merge pass (checked under SpecFresh)
\* ========================================================================
\* the latest of the per-source dates, None when no source has one
Freshest(ds) == Max(ds[1], Max(ds[2], ds[3]))

\* C30: a date reported for the pass as a whole, screening_date or the date
\* of data_freshness that is not a per-source one, is the latest of the
\* per-source dates, and the per-source dates reported are the latest
\* analysis dates of the rows merged from each source.
C30_OverallDateIsFreshest ==
    (PassEnded /\ merge_result.status = "success") =>
        /\ \/ merge_result.screening_date = Freshest(dates)
           \/ merge_result.data_freshness.oldest_date = Freshest(dates)
        /\ merge_result.data_freshness.maverick_date = dates[1]
        /\ merge_result.data_freshness.supply_demand_date = dates[2]
        /\ merge_result.data_freshness.bear_date = dates[3]


\* ------------------------------------------------------------------------
\* a provider call of task a is in progress
SubFetching(a) == a.tech = "running" \/ a.sr = "running" \/ a.news = "running"

\* C31: every provider sub-fetch of a ticker (technical analysis,
\* support/resistance, news) is in progress only while the task of that
\* ticker is inside the semaphore, also after the technical analysis raised
\* in the no-fingerprint path
C31_SubFetchesHoldASlot ==
    \A i \in 1..Len(analyses) : SubFetching(analyses[i]) => InSection(analyses[i])

\* C32: when get_ranked_watchlist returns the error dict, get_delta does not
\* treat the watchlist as empty: it appends no snapshot and reports no
\* ticker as an exit.
C32_Step ==
    \A h \in SinceHashes :
        (DeltaCall(h) /\ ranked.status = "error") =>
            /\ _screening_snapshots' = _screening_snapshots
            /\ response'.changed => response'.exits = <<>>

C32_RankingErrorIsReported == [][C32_Step]_vars

\* C33: when a change-hash check returned hash h for watchlist W1 and fewer
\* than 24 snapshots have been appended since, get_delta(since_hash = h)
\* against another current watchlist W2 answers with the entries and exits
\* of W2 relative to the tickers of W1 (not relative to the empty set).
C33_Step ==
    \A h \in SinceHashes :
        (/\ DeltaCall(h)
         /\ checked # NoCheck
         /\ h = checked.content_hash
         /\ now - checked.at < 24
         /\ ranked.status = "success"
         /\ Current # checked.watchlist) =>
            LET W1 == SetOf(TickersOf(checked.watchlist))
            IN  /\ response'.changed = TRUE
                /\ AscendingListOf(response'.entries, CurrentSet \ W1)
                /\ AscendingListOf(response'.exits, W1 \ CurrentSet)

C33_DeltaAgainstCheckedHash == [][C33_Step]_vars

\* the check hashed {A,B,C}, 23 snapshots have been appended since, and
\* get_delta called with that hash against {B,C,D} has answered entries
\* [D], exits [A]
C33_Witness ==
    /\ checked # NoCheck
    /\ SetOf(TickersOf(checked.watchlist)) = {"A", "B", "C"}
    /\ response.op = "deltas"
    /\ response.changed = TRUE
    /\ request = checked.content_hash
    /\ now = checked.at + 24
    /\ CurrentSet = {"B", "C", "D"}
    /\ response.entries = <<"D">>
    /\ response.exits = <<"A">>

\* the request names a fingerprint for the ticker of task i
HasFingerprint(i) == upper(body.tickers[i]) \in body.fingerprints

\* an extras fetch of task a has been started
ExtrasStarted(a) == a.sr # "idle" \/ a.news # "idle"

\* C34: for a ticker with a fingerprint the extras fetches are started only
\* after the technical analysis has completed (and not reported unchanged);
\* for a ticker without a fingerprint the technical analysis and the extras
\* fetches are started together, neither waiting for the other to finish.
C34_ExtrasOrder ==
    \A i \in 1..Len(analyses) :
        IF HasFingerprint(i)
        THEN ExtrasStarted(analyses[i]) => analyses[i].tech = "ok"
        ELSE /\ analyses[i].tech # "idle" <=> analyses[i].sr # "idle"
             /\ body.include_news =>
                    (analyses[i].tech # "idle" <=> analyses[i].news # "idle")

\* of two tasks of one call, the one with a fingerprint is fetching its
\* extras after its technical analysis returned, and the one without has
\* its technical analysis and both extras fetches in progress
C34_Witness ==
    /\ Len(analyses) = 2
    /\ body.include_news
    /\ \E i, j \in 1..Len(analyses) :
          /\ HasFingerprint(i)
          /\ analyses[i].tech = "ok"
          /\ analyses[i].sr = "running"
          /\ ~HasFingerprint(j)
          /\ analyses[j].tech = "running"
          /\ analyses[j].sr = "running"
          /\ analyses[j].news = "running"

\* no batch_analysis call is in flight
NoCallInFlight == \A c \in FairCalls : ~batch[c].active

\* C35: when every provider call returns or raises, every batch_analysis
\* call returns, whatever the number of its tickers and of the calls running
\* beside it (so no task waits for a slot forever), and whenever no call is
\* in flight all 10 slots of the semaphore are free, also after tasks that
\* raised.
C35_EveryCallReturns ==
    /\ \A c \in FairCalls : batch[c].active ~> ~batch[c].active
    /\ [](NoCallInFlight =>
            _get_batch_semaphore(_batch_semaphore) = BATCH_CAPACITY)

\* two calls are in flight with more than 10 tickers between them: all 10
\* slots are taken and tasks of both calls wait for one
C35_Witness ==
    /\ _batch_semaphore = 0
    /\ \E c, d \in FairCalls :
          /\ c # d
          /\ batch[c].active /\ batch[c].pending > 0 /\ batch[c].holding > 0
          /\ batch[d].active /\ batch[d].pending > 0 /\ batch[d].holding > 0

\* the loop tasks start() has created that are not finished
LiveTasks == {t \in TaskIds : tasks[t].pc \notin {"none", "done", "killed"}}

\* C36: over any interleaving of start() and stop() calls on one scheduler
\* object, at most one loop task is live (created by start() and not yet
\* finished) at any time.
C36_AtMostOneLoop == Cardinality(LiveTasks) <= 1

\* the position of ticker t among the tickers merged in this pass
MergeIndex(t) == CHOOSE i \in 1..Len(firstMerged) : firstMerged[i] = t

\* C37: two candidates of the watchlist whose scores are equal after
\* rounding stand in the order in which their tickers were first merged
\* (the sources being processed in the order Bullish, Breakout, Bearish),
\* also when a later sighting of one of them scored higher.
C37_TiesKeepMergeOrder ==
    (PassEnded /\ merge_result.status = "success") =>
        \A i, j \in 1..Len(watchlist) :
            (i < j /\ watchlist[i].composite_score = watchlist[j].composite_score) =>
                /\ Contains(firstMerged, watchlist[i].ticker)
                /\ Contains(firstMerged, watchlist[j].ticker)
                /\ MergeIndex(watchlist[i].ticker) < MergeIndex(watchlist[j].ticker)

\* a pass has ended with two candidates of equal score; the one merged
\* first leads, and its entry was replaced by a later, higher-scoring
\* sighting from another source (its tags are not those of all its rows)
C37_Witness ==
    /\ PassEnded /\ merge_result.status = "success"
    /\ Len(watchlist) = 2
    /\ Len(firstMerged) = 2
    /\ watchlist[1].composite_score = watchlist[2].composite_score
    /\ watchlist[1].ticker = firstMerged[1]
    /\ watchlist[1].algorithms # firstSeen[watchlist[1].ticker]
    /\ rowMax[watchlist[1].ticker] = watchlist[1].composite_score

\* today's run is still due: the trigger predicate holds now and the loop
\* task is ready to evaluate it
RunDueNow ==
    /\ _task # NoTask
    /\ CanResume(_task)
    /\ ~tasks[_task].cancel
    /\ ShouldTrigger(_get_et_now(clock), _last_run_date)

\* C38: while the scheduler is RUNNING, status.next_run names a weekday at
\* the configured time, and never a date later than the date on which the
\* loop will next trigger the pipeline: it names today whenever today's run
\* is still due.
C38_NextRunIsNextTrigger ==
    _running =>
        LET next_run == scheduler_status(clock).next_run
        IN  /\ next_run.weekday < 5
            /\ next_run.time = screening_time
            /\ RunDueNow => next_run.date <= DateOf(clock)
====
